---- MODULE Spec2Model ----
(***************************************************************************)
(* Model of the reconnecting WebSocket client of the dashboard frontend    *)
(* (frontend/src/utils/websocket.ts), of its heartbeat wrapper and of the  *)
(* pinia websocket store that mirrors a client's connection status and     *)
(* keeps the console buffer.                                               *)
(*                                                                         *)
(* The browser is the environment: it owns the transport sockets, delivers *)
(* their open / error / close events one task at a time and fires the      *)
(* timers the client registers with setTimeout.  Every handler of the      *)
(* client runs to completion inside one step (single-threaded event loop). *)
(***************************************************************************)
EXTENDS Integers, Sequences, FiniteSets, TLC

(* ------------------------------------------------------------------ *)
(* Bounds of the model                                                 *)
(* ------------------------------------------------------------------ *)

\* connection attempts that can be under way at the same time: transport
\* sockets the browser has not closed yet plus pending reconnect timers
MaxPending == 2

\* send() calls made by the owner of a client
MaxSends == 2

\* entries of the two handler lists of a client, taken together
MaxHandlers == 3

\* entries appended to the console buffer on top of the ones it starts with
MaxAppends == 4

\* console_log frames a channel receives between two clears of the buffer
MaxBuffer == 2

\* commands submitted to the store or typed into the console view
MaxCommands == 3

\* performance_update messages the dashboard handles on top of the samples
\* its charts start with
MaxSamples == 4

\* REST calls of the dashboard store in flight at the same time
MaxFetches == 2

\* interval timers the dashboard store creates
MaxRefreshTimers == 3

\* characters of a line typed into the console view
MaxText == 2

\* consecutive failures of the transport (abnormal closes with no open in
\* between) in the specifications that follow the frames of a channel
MaxFailures == 1

(* ------------------------------------------------------------------ *)
(* Program constants                                                   *)
(* ------------------------------------------------------------------ *)

maxReconnectAttempts == 5

reconnectDelay == 1000

\* the code disconnect() passes to WebSocket.close and onclose compares with
ManualCloseCode == 1000

\* close codes the transport reports: 1000 normal closure, 1001 going away (a
\* clean close started by the server) and 1006 abnormal closure (the connection
\* failed or was lost; the browser fires an error event before the close event)
CloseCodes == {1000, 1001, 1006}

\* AutoReconnectWebSocket.pingIntervalMs
pingIntervalMs == 30000

\* the client instances that exist at the same time: the one a channel of the
\* store holds and one the store has replaced
Clients == {1, 2}

\* the ids setInterval hands out (never 0)
IntervalIds == {1, 2}

SocketIds == 1 .. MaxPending

\* this.ws = null
Null == 0

\* this.ws refers to a WebSocket object that has reached readyState CLOSED:
\* such an object never changes and never fires an event again
ClosedSocket == -1

\* WSConnectionStatus.error is optional
NoError == "undefined"

VARIABLES
    client,     \* client[c]: the fields of WebSocketClient instance c
    sockets,    \* sockets[s]: the browser's WebSocket objects
    timers,     \* the pending setTimeout callbacks of attemptReconnect, oldest first
    intervals,  \* the running setInterval timers, by the id setInterval returned
    store,      \* the websocket store: mirrored connection statuses, console buffer
    trace,      \* what the last step did: handlers invoked, promises settled, frames sent
    view,       \* the console view: input line, command history, history cursor
    dashboard,  \* the dashboard view: its chart series
    hist,       \* hist[c]: history of instance c (observation only)
    last        \* the step taken last (observation only)

vars == <<client, sockets, timers, intervals, store, trace, view, dashboard, hist, last>>

(* ------------------------------------------------------------------ *)
(* Data                                                                *)
(* ------------------------------------------------------------------ *)

Status(connected, reconnecting, error) ==
    [connected |-> connected, reconnecting |-> reconnecting, error |-> error]

\* connectionStatus as the field initialiser sets it
InitialStatus == Status(FALSE, FALSE, NoError)

\* the literal connect() and attemptReconnect() publish before a connection attempt
ReconnectingStatus == Status(FALSE, TRUE, NoError)

\* (a variant of OpenStatus that forgets to clear `reconnecting`)
OpenStatus_StillReconnecting == Status(TRUE, TRUE, NoError)

\* the literal ws.onopen publishes
OpenStatus == Status(TRUE, FALSE, NoError)

\* the literal ws.onclose and disconnect() publish
ClosedStatus == Status(FALSE, FALSE, NoError)

\* the literal ws.onerror publishes
ErrorStatus == Status(FALSE, FALSE, "Connection error")

\* the literal the catch block of connect() publishes
CreateFailedStatus == Status(FALSE, FALSE, "Failed to create WebSocket connection")

\* the literal the guard of attemptReconnect() publishes
MaxAttemptsStatus == Status(FALSE, FALSE, "Max reconnection attempts reached")

\* a socket slot the browser holds no WebSocket object in
NoSocket ==
    [readyState |-> "NONE", owner |-> 0, established |-> FALSE,
     failing |-> FALSE, fresh |-> FALSE, promise |-> "none"]

\* new WebSocket(url): a socket in CONNECTING state whose handlers close over
\* `owner` and over resolve / reject of the promise connect() returns
NewSocket(owner) ==
    [readyState |-> "CONNECTING", owner |-> owner, established |-> FALSE,
     failing |-> FALSE, fresh |-> FALSE, promise |-> "pending"]

\* a step that has received no frame, invoked no handler, settled no promise
\* and sent no frame yet, that is not a call naming a subscriber, and in which
\* no store action has returned, no notice (ElMessage) was shown and no line
\* was typed
NoTrace ==
    [inbound |-> <<>>, calls |-> <<>>, settled |-> <<>>, sent |-> <<>>,
     thrown |-> FALSE, subscriber |-> "", returned |-> "-", notices |-> <<>>,
     typed |-> <<>>]

\* the state every step starts from, as one record
World ==
    [client |-> client, sockets |-> sockets, timers |-> timers,
     intervals |-> intervals, store |-> store, trace |-> NoTrace,
     view |-> view, dashboard |-> dashboard]

Min(a, b) == IF a < b THEN a ELSE b

\* a saturating history counter: maxReconnectAttempts + 1 stands for "more"
Bump(n) == Min(n + 1, maxReconnectAttempts + 1)

(* ------------------------------------------------------------------ *)
(* The websocket store                                                 *)
(* ------------------------------------------------------------------ *)

maxConsoleMessages == 1000

\* (a variant of ExcessEntries that lets the buffer keep one entry too many)
ExcessEntries_OffByOne(len) ==
    IF len > maxConsoleMessages + 1 THEN len - maxConsoleMessages - 1 ELSE 0

\* the number of entries addConsoleMessage removes from a buffer of length len
ExcessEntries(len) ==
    IF len > maxConsoleMessages THEN len - maxConsoleMessages ELSE 0

\* (a variant of splice that removes the newest entries instead of the oldest)
splice_FromEnd(seq, n) == SubSeq(seq, 1, Len(seq) - n)

\* consoleMessages.value.splice(0, n): removes the first n entries
splice(seq, n) == SubSeq(seq, n + 1, Len(seq))

\* addConsoleMessage: push, then trim the oldest entries beyond the cap
addConsoleMessage(st, message) ==
    LET pushed == Append(st.consoleMessages, message)
    IN  [st EXCEPT !.consoleMessages = splice(pushed, ExcessEntries(Len(pushed)))]

clearConsoleMessages(st) == [st EXCEPT !.consoleMessages = <<>>]

\* (a variant of ConsoleEntry that stamps the entry with the time of arrival)
ConsoleEntry_DropsTimestamp(message) ==
    [type |-> message.type, timestamp |-> "now", data |-> message.data]

\* the entry handleConsoleMessage builds from a console_log frame
ConsoleEntry(message) ==
    [type |-> message.type, timestamp |-> message.timestamp, data |-> message.data]

\* handleConsoleMessage: console_log is appended to the buffer; the other
\* types (connection_established, pong, unknown ones) are only logged
handleConsoleMessage(st, message) ==
    IF message.type = "console_log"
    THEN addConsoleMessage(st, ConsoleEntry(message))
    ELSE st

\* handleStatusMessage: no type changes the store
handleStatusMessage(st, message) == st

\* the handlers initConsoleWebSocket / initStatusWebSocket register:
\* consoleStatus.value = status (resp. statusConnectionStatus.value = status)
\* on connection changes, handleConsoleMessage (resp. handleStatusMessage) on
\* messages; any other handler is a subscriber that leaves the store alone
StoreHandler(st, h, arg) ==
    CASE h = "console" -> [st EXCEPT !.consoleStatus = arg]
      [] h = "status"  -> [st EXCEPT !.statusConnectionStatus = arg]
      [] h = "consoleMessage" -> handleConsoleMessage(st, arg)
      [] h = "statusMessage"  -> handleStatusMessage(st, arg)
      [] OTHER         -> st

(* ------------------------------------------------------------------ *)
(* WebSocketClient                                                     *)
(* ------------------------------------------------------------------ *)

\* the subscriber whose handler raises an exception when it is invoked
Throws(h) == h = "thrower"

\* (a variant of TryCatch without the try block: the exception leaves forEach)
TryCatch_Rethrows(raised) == raised

\* try { handler(arg) } catch (error) { console.error(...) }: whether an
\* exception raised by the handler leaves the block
TryCatch(raised) == FALSE

\* one handler is invoked: its effect on the store, and the invocation noted
Invoke(w, h, on, arg) ==
    [w EXCEPT !.store = StoreHandler(@, h, arg),
              !.trace.calls = Append(@, [h |-> h, on |-> on, arg |-> arg])]

\* (a variant of forEach that walks the handlers from the last to the first)
RECURSIVE forEach_Backwards(_, _, _, _)
forEach_Backwards(w, handlers, on, arg) ==
    IF handlers = <<>> THEN w
    ELSE LET h  == handlers[Len(handlers)]
             w1 == Invoke(w, h, on, arg)
         IN  IF TryCatch(Throws(h))
             THEN [w1 EXCEPT !.trace.thrown = TRUE]
             ELSE forEach_Backwards(w1, SubSeq(handlers, 1, Len(handlers) - 1), on, arg)

\* handlers.forEach(handler => { try { handler(arg) } catch ... }): the
\* handlers run in registration order; an exception that left the try block
\* would end the loop and reach the caller
RECURSIVE forEach(_, _, _, _)
forEach(w, handlers, on, arg) ==
    IF handlers = <<>> THEN w
    ELSE LET w1 == Invoke(w, Head(handlers), on, arg)
         IN  IF TryCatch(Throws(Head(handlers)))
             THEN [w1 EXCEPT !.trace.thrown = TRUE]
             ELSE forEach(w1, Tail(handlers), on, arg)

\* (a variant of indexOf that finds the last entry of the handler)
indexOf_Last(handlers, h) ==
    IF \E i \in DOMAIN handlers : handlers[i] = h
    THEN CHOOSE i \in DOMAIN handlers :
             handlers[i] = h /\ \A j \in DOMAIN handlers : handlers[j] = h => j <= i
    ELSE -1

\* handlers.indexOf(handler): the position of its first entry (from 1), or -1
indexOf(handlers, h) ==
    IF \E i \in DOMAIN handlers : handlers[i] = h
    THEN CHOOSE i \in DOMAIN handlers :
             handlers[i] = h /\ \A j \in DOMAIN handlers : handlers[j] = h => i <= j
    ELSE -1

\* offMessage / offConnectionChange: splice the first entry of the handler out
off(handlers, h) ==
    LET index == indexOf(handlers, h)
    IN  IF index # -1
        THEN SubSeq(handlers, 1, index - 1) \o SubSeq(handlers, index + 1, Len(handlers))
        ELSE handlers

\* the handlers a subscriber's handler unsubscribes from the list it is
\* invoked from: "once" removes itself at its first call, "remover" removes
\* "probe"; the others call no off method
Unsubscribes(h) ==
    CASE h = "once"    -> <<"once">>
      [] h = "remover" -> <<"probe">>
      [] OTHER         -> <<>>

\* the list after the handler h has run
AfterCall(live, h) ==
    IF Unsubscribes(h) = <<>> THEN live ELSE off(live, Unsubscribes(h)[1])

\* Array.prototype.forEach over an array its callback splices: the index
\* runs from the first position to the length the array had at the start and
\* reads the array as it is then; a position past the end is passed over.
\* The entries the callback is called with, in order:
RECURSIVE Visited(_, _, _)
Visited(live, k, len) ==
    IF k > len THEN <<>>
    ELSE IF k > Len(live) THEN Visited(live, k + 1, len)
    ELSE <<live[k]>> \o Visited(AfterCall(live, live[k]), k + 1, len)

\* ... and the array they leave
RECURSIVE Remaining(_, _, _)
Remaining(live, k, len) ==
    IF k > len \/ k > Len(live) THEN live
    ELSE Remaining(AfterCall(live, live[k]), k + 1, len)

updateConnectionStatus(w, c, status) ==
    LET handlers == w.client[c].connectionHandlers
    IN  forEach([w EXCEPT !.client[c].connectionStatus = status,
                          !.client[c].connectionHandlers = Remaining(handlers, 1, Len(handlers))],
                Visited(handlers, 1, Len(handlers)), "connection", status)

handleMessage(w, c, message) ==
    LET handlers == w.client[c].messageHandlers
    IN  forEach([w EXCEPT !.client[c].messageHandlers = Remaining(handlers, 1, Len(handlers))],
                Visited(handlers, 1, Len(handlers)), "message", message)

\* (a variant of onmessage without the try block around JSON.parse: what
\* cannot be parsed is handed to the handlers as it came)
onmessage_DispatchesUnparsed(w, c, data) ==
    handleMessage([w EXCEPT !.trace.inbound = Append(@, data)], c, data)

\* ws.onmessage: JSON.parse the frame and dispatch it; a frame that does not
\* parse is logged and dropped
onmessage(w, c, data) ==
    LET w1 == [w EXCEPT !.trace.inbound = Append(@, data)]
    IN  IF data.type = "malformed" THEN w1 ELSE handleMessage(w1, c, data)

onMessage(w, c, h) == [w EXCEPT !.client[c].messageHandlers = Append(@, h)]

offMessage(w, c, h) == [w EXCEPT !.client[c].messageHandlers = off(@, h)]

onConnectionChange(w, c, h) == [w EXCEPT !.client[c].connectionHandlers = Append(@, h)]

offConnectionChange(w, c, h) == [w EXCEPT !.client[c].connectionHandlers = off(@, h)]

FreeSlot(socks) ==
    CHOOSE s \in SocketIds :
        /\ socks[s].readyState = "NONE"
        /\ \A t \in SocketIds : socks[t].readyState = "NONE" => s <= t

\* this.ws = new WebSocket(this.url): the constructor throws on a URL it rejects
CanCreate(w, c) == w.client[c].url = "valid"

\* stopPing: clearInterval(this.pingInterval) when the field holds an id
stopPing(w, c) ==
    IF w.client[c].pingInterval # Null
    THEN [w EXCEPT !.intervals = {t \in @ : t.id # w.client[c].pingInterval},
                   !.client[c].pingInterval = Null]
    ELSE w

\* window.setInterval(callback, pingIntervalMs) returns an id not in use
FreeInterval(running) ==
    CHOOSE id \in IntervalIds :
        /\ \A t \in running : t.id # id
        /\ \A other \in IntervalIds : (\A t \in running : t.id # other) => id <= other

\* (a variant of startPing that does not stop the timer already running)
startPing_NoStop(w, c) ==
    LET id == FreeInterval(w.intervals)
    IN  [w EXCEPT !.intervals = @ \cup {[id |-> id, owner |-> c, every |-> pingIntervalMs]},
                  !.client[c].pingInterval = id]

\* startPing: stop the timer that may be running, start a new one, keep its id
startPing(w, c) ==
    LET w1 == stopPing(w, c)
        id == FreeInterval(w1.intervals)
    IN  [w1 EXCEPT !.intervals = @ \cup {[id |-> id, owner |-> c, every |-> pingIntervalMs]},
                   !.client[c].pingInterval = id]

\* AutoReconnectWebSocket.connect after `await super.connect()`: the
\* continuation runs once the promise is resolved; WebSocketClient has none
Continuation(w, c) ==
    IF w.client[c].class = "AutoReconnectWebSocket" THEN startPing(w, c) ELSE w

\* a promise settles once: a later resolve() or reject() changes nothing
Settle(w, s, outcome) ==
    [w EXCEPT !.sockets[s].promise = outcome,
              !.trace.settled = Append(@, [c |-> w.sockets[s].owner, outcome |-> outcome])]

\* resolve() of the promise the connect() call that created socket s returned
resolve(w, s) ==
    IF w.sockets[s].promise = "pending"
    THEN Continuation(Settle(w, s, "resolved"), w.sockets[s].owner)
    ELSE w

\* reject(error) of that promise; every caller in the repository attaches a
\* catch handler, so a rejection goes no further
reject(w, s) ==
    IF w.sockets[s].promise = "pending" THEN Settle(w, s, "rejected") ELSE w

\* connect(): publish "reconnecting", create the socket and install its handlers;
\* when the constructor throws, the catch block publishes the failure and
\* rejects the promise instead
connect(w, c) ==
    LET w1 == updateConnectionStatus(w, c, ReconnectingStatus)
    IN  IF CanCreate(w1, c)
        THEN LET s == FreeSlot(w1.sockets)
             IN  [w1 EXCEPT !.sockets[s] = NewSocket(c), !.client[c].ws = s]
        ELSE LET w2 == updateConnectionStatus(w1, c, CreateFailedStatus)
             IN  [w2 EXCEPT !.trace.settled = Append(@, [c |-> c, outcome |-> "rejected"])]

\* (a variant of onopen that does not reset the attempt counter)
onopen_KeepsCounter(w, s) ==
    resolve(updateConnectionStatus(w, w.sockets[s].owner, OpenStatus), s)

\* ws.onopen of socket s
onopen(w, s) ==
    LET c == w.sockets[s].owner
    IN  resolve(updateConnectionStatus([w EXCEPT !.client[c].reconnectAttempts = 0],
                                       c, OpenStatus), s)

\* (a variant of onerror that publishes no error)
onerror_NoError(w, s) ==
    reject(updateConnectionStatus(w, w.sockets[s].owner, ClosedStatus), s)

\* ws.onerror of socket s
onerror(w, s) ==
    reject(updateConnectionStatus(w, w.sockets[s].owner, ErrorStatus), s)

\* (a variant of BackoffDelay whose exponent is off by one)
BackoffDelay_OffByOne(attempts) == reconnectDelay * 2 ^ attempts

\* the delay attemptReconnect computes after incrementing the counter
BackoffDelay(attempts) == reconnectDelay * 2 ^ (attempts - 1)

\* setTimeout(() => this.connect().catch(...), delay)
setTimeout(w, c, delay) ==
    [w EXCEPT !.timers = Append(@, [owner |-> c, delay |-> delay, stale |-> FALSE])]

\* (a variant of attemptReconnect that forgets to count the attempt)
attemptReconnect_NoIncrement(w, c) ==
    IF w.client[c].reconnectAttempts >= maxReconnectAttempts
    THEN updateConnectionStatus(w, c, MaxAttemptsStatus)
    ELSE LET w2 == updateConnectionStatus(w, c, ReconnectingStatus)
         IN  setTimeout(w2, c, BackoffDelay(w.client[c].reconnectAttempts + 1))

attemptReconnect(w, c) ==
    IF w.client[c].reconnectAttempts >= maxReconnectAttempts
    THEN updateConnectionStatus(w, c, MaxAttemptsStatus)
    ELSE LET n  == w.client[c].reconnectAttempts + 1
             w1 == [w EXCEPT !.client[c].reconnectAttempts = n]
             w2 == updateConnectionStatus(w1, c, ReconnectingStatus)
         IN  setTimeout(w2, c, BackoffDelay(n))

\* (a variant of ShouldReconnect that does not look at the close code)
ShouldReconnect_IgnoresCode(w, c, code) ==
    w.client[c].reconnectAttempts < maxReconnectAttempts

\* the condition under which ws.onclose calls attemptReconnect
ShouldReconnect(w, c, code) ==
    code # ManualCloseCode /\ w.client[c].reconnectAttempts < maxReconnectAttempts

\* (a variant of ws.onclose that retries after every abnormal close and
\* counts the attempt itself)
onclose_CountsEveryClose(w, c, code) ==
    LET w1 == updateConnectionStatus(w, c, ClosedStatus)
        n  == w.client[c].reconnectAttempts + 1
    IN  IF code # ManualCloseCode
        THEN setTimeout(updateConnectionStatus([w1 EXCEPT !.client[c].reconnectAttempts = n],
                                               c, ReconnectingStatus),
                        c, BackoffDelay(n))
        ELSE w1

\* ws.onclose
onclose(w, c, code) ==
    LET w1 == updateConnectionStatus(w, c, ClosedStatus)
    IN  IF ShouldReconnect(w1, c, code) THEN attemptReconnect(w1, c) ELSE w1

\* WebSocket.close(code, reason): starts the closing handshake of an open socket,
\* abandons the attempt of a connecting one, does nothing on a closing or closed one
close(socks, s) ==
    IF s \in SocketIds /\ socks[s].readyState \in {"CONNECTING", "OPEN"}
    THEN [socks EXCEPT ![s].readyState = "CLOSING"]
    ELSE socks

disconnect(w, c) ==
    LET s  == w.client[c].ws
        w1 == IF s # Null
              THEN [w EXCEPT !.sockets = close(w.sockets, s), !.client[c].ws = Null]
              ELSE w
    IN  updateConnectionStatus(w1, c, ClosedStatus)

\* (a variant of send that hands the frame to the socket whatever its state)
send_Unguarded(w, c, message) ==
    IF w.client[c].ws # Null
    THEN [w EXCEPT !.trace.sent = Append(@, message)]
    ELSE w

\* send: the frame goes to the socket only if this.ws is set and OPEN; it is
\* neither kept nor reported otherwise (console.warn)
send(w, c, message) ==
    IF /\ w.client[c].ws # Null
       /\ w.client[c].ws \in SocketIds
       /\ w.sockets[w.client[c].ws].readyState = "OPEN"
    THEN [w EXCEPT !.trace.sent = Append(@, message)]
    ELSE w

sendCommand(w, c, command) == send(w, c, [type |-> "command", command |-> command])

ping(w, c) == send(w, c, [type |-> "ping", command |-> ""])

isConnected(w, c) == w.client[c].connectionStatus.connected

\* (a variant of PingCallback that pings without asking isConnected)
PingCallback_Unconditional(w, c) == ping(w, c)

\* the callback startPing registers with setInterval
PingCallback(w, c) == IF isConnected(w, c) THEN ping(w, c) ELSE w

\* AutoReconnectWebSocket.disconnect: stopPing, then super.disconnect; the
\* base class has disconnect alone
Disconnected(w, c) ==
    IF w.client[c].class = "AutoReconnectWebSocket"
    THEN disconnect(stopPing(w, c), c)
    ELSE disconnect(w, c)

(* ------------------------------------------------------------------ *)
(* The system: API calls, transport events and timers                  *)
(* ------------------------------------------------------------------ *)

\* Socket identities carry no meaning: after every step the sockets are
\* renumbered in a fixed order of their contents, so that two states that
\* differ only in the numbering are one state.
StateRank(rs) ==
    CASE rs = "CONNECTING" -> 1
      [] rs = "OPEN"       -> 2
      [] rs = "CLOSING"    -> 3
      [] rs = "CLOSED"     -> 4
      [] OTHER             -> 5

Bit(b) == IF b THEN 1 ELSE 0

SocketKey(w, s) ==
    LET sk == w.sockets[s]
    IN  StateRank(sk.readyState) * 1000 + sk.owner * 16 + Bit(sk.established) * 8
        + Bit(sk.failing) * 4 + Bit(sk.fresh) * 2
        + Bit(\E c \in Clients : w.client[c].ws = s)

Canon(w) ==
    LET p == CHOOSE q \in Permutations(SocketIds) :
                 \A i, j \in SocketIds : i < j => SocketKey(w, q[i]) <= SocketKey(w, q[j])
        renamed(ref) == IF ref \in SocketIds
                        THEN CHOOSE i \in SocketIds : p[i] = ref
                        ELSE ref
    IN  [w EXCEPT !.sockets = [i \in SocketIds |-> w.sockets[p[i]]],
                  !.client = [c \in Clients |-> [w.client[c] EXCEPT !.ws = renamed(@)]]]

\* the step ends in the state w
Becomes(w) ==
    \E v \in {w} : \E k \in {Canon(v)} :
        /\ client' = k.client
        /\ sockets' = k.sockets
        /\ timers' = k.timers
        /\ intervals' = k.intervals
        /\ store' = k.store
        /\ trace' = k.trace
        /\ view' = k.view
        /\ dashboard' = k.dashboard

\* connection attempts under way: sockets not yet closed and pending timers
Pending == Cardinality({s \in SocketIds : sockets[s].readyState # "NONE"})
           + Len(timers)

\* an error event and the close event that follows it are dispatched in one
\* task: nothing else runs while a socket has fired error and not yet close
Quiescent == \A s \in SocketIds : ~sockets[s].failing

\* the automatic attempts of instance c are used up: a close event found
\* the counter at its maximum since the last open
Exhausted(c) == hist[c].closes > maxReconnectAttempts

\* the close codes the browser can report for socket s: 1006 after an error
\* event; a clean close of an established connection otherwise (the code the
\* server sent, which echoes the client's own code after close(1000, ...))
PossibleCodes(s) ==
    IF sockets[s].failing THEN {1006}
    ELSE IF sockets[s].readyState = "OPEN" THEN {1000, 1001}
    ELSE IF sockets[s].readyState = "CLOSING" /\ sockets[s].established
         THEN {1000}
    ELSE {}

\* the pending timers of instance c, marked as (not) overtaken by a disconnect()
MarkStale(ts, c, flag) ==
    [i \in DOMAIN ts |-> IF ts[i].owner = c THEN [ts[i] EXCEPT !.stale = flag] ELSE ts[i]]

RemoveAt(seq, i) == SubSeq(seq, 1, i - 1) \o SubSeq(seq, i + 1, Len(seq))

\* timers run in the order in which they expire: a timer cannot run before one
\* that was registered earlier with a delay that is not longer
CanFire(i) == \A j \in 1 .. i - 1 : timers[j].delay > timers[i].delay

\* what the last step was: the operation and the instance it ran on, the close
\* code and the readyState the socket had (error and close events), the delay of the
\* timer it registered or ran, whether a disconnect() had overtaken that timer,
\* and whether the socket was created by a connect() call made after the
\* automatic attempts were used up
Event(op, c, code, was, delay, stale, fresh) ==
    [op |-> op, c |-> c, code |-> code, was |-> was, delay |-> delay,
     stale |-> stale, fresh |-> fresh]

\* instance c has been constructed
Constructed(c) == client[c].class # "none"

\* the caller invokes connect() on instance c
Connect(c) ==
    /\ Constructed(c)
    /\ Quiescent
    /\ CanCreate(World, c) => Pending < MaxPending
    /\ LET w == connect(World, c)
           s == w.client[c].ws
       IN  Becomes([w EXCEPT !.sockets = IF CanCreate(World, c)
                                         THEN [@ EXCEPT ![s].fresh = Exhausted(c)]
                                         ELSE @,
                             !.timers = MarkStale(@, c, FALSE)])
    /\ hist' = [hist EXCEPT ![c].manual = FALSE]
    /\ last' = Event("connect", c, 0, "-", 0, FALSE, Exhausted(c))

\* the caller invokes disconnect() on instance c
Disconnect(c) ==
    /\ Constructed(c)
    /\ Quiescent
    /\ LET w == Disconnected(World, c)
       IN  Becomes([w EXCEPT !.timers = MarkStale(@, c, TRUE)])
    /\ hist' = [hist EXCEPT ![c].manual = TRUE]
    /\ last' = Event("disconnect", c, 0, "-", 0, FALSE, FALSE)

\* the transport of socket s is established: the browser fires open
OpenEvent(s) ==
    /\ Quiescent
    /\ sockets[s].readyState = "CONNECTING"
    /\ LET c == sockets[s].owner
       IN  /\ Becomes(onopen([World EXCEPT !.sockets[s].readyState = "OPEN",
                                           !.sockets[s].established = TRUE], s))
           /\ hist' = [hist EXCEPT ![c].closes = 0, ![c].autoConnects = 0]
    /\ last' = Event("open", sockets[s].owner, 0, "-", 0, FALSE, sockets[s].fresh)

\* the connection of socket s fails or is lost: the browser fires error
\* (and will fire close with code 1006 next)
ErrorEvent(s) ==
    /\ Quiescent
    /\ sockets[s].readyState \in {"CONNECTING", "OPEN", "CLOSING"}
    /\ Becomes(onerror([World EXCEPT !.sockets[s].readyState = "CLOSED",
                                     !.sockets[s].failing = TRUE], s))
    /\ hist' = hist
    /\ last' = Event("error", sockets[s].owner, 0, sockets[s].readyState, 0, FALSE,
                     sockets[s].fresh)

\* the browser fires close with `code` on socket s; the socket is gone after it
CloseEvent(s, code) ==
    /\ code \in PossibleCodes(s)
    /\ \A t \in SocketIds : sockets[t].failing => t = s
    /\ LET c == sockets[s].owner
           gone == [World EXCEPT !.sockets[s] = NoSocket,
                                 !.client[c].ws = IF @ = s THEN ClosedSocket ELSE @]
           w == onclose(gone, c, code)
       IN  /\ Becomes(w)
           /\ hist' = IF code # ManualCloseCode
                      THEN [hist EXCEPT ![c].closes = Bump(@)]
                      ELSE hist
           /\ last' = Event("close", c, code,
                            IF sockets[s].failing THEN "FAILED" ELSE sockets[s].readyState,
                            IF Len(w.timers) > Len(timers) THEN w.timers[Len(w.timers)].delay ELSE 0,
                            FALSE, sockets[s].fresh)

\* the i-th pending reconnect timer fires: this.connect().catch(() => {})
TimerFire(i) ==
    /\ Quiescent
    /\ i \in DOMAIN timers
    /\ CanFire(i)
    /\ LET c == timers[i].owner
       IN  /\ Becomes(connect([World EXCEPT !.timers = RemoveAt(@, i)], c))
           /\ hist' = [hist EXCEPT ![c].autoConnects = Bump(@)]
    /\ last' = Event("timer", timers[i].owner, 0, "-", timers[i].delay, timers[i].stale, FALSE)

\* a client as the store sets it up before it calls connect(): constructed with
\* its URL, and with the store's connection-change handler of its channel registered
NewClient(url, handlers) ==
    [class |-> "WebSocketClient", ws |-> Null, url |-> url, reconnectAttempts |-> 0,
     connectionStatus |-> InitialStatus, connectionHandlers |-> handlers,
     messageHandlers |-> <<>>, pingInterval |-> Null]

\* the store before any frame has arrived
NewStore ==
    [consoleWs |-> Null, statusWs |-> Null, consoleStatus |-> InitialStatus,
     statusConnectionStatus |-> InitialStatus, consoleMessages |-> <<>>]

\* a slot no client instance has been constructed in
NotConstructed == [NewClient("valid", <<>>) EXCEPT !.class = "none"]

\* one client instance and nothing else
Only(instance) ==
    [c \in Clients |-> IF \A d \in Clients : c <= d THEN instance ELSE NotConstructed]

\* the console view as it is mounted
NewView == [currentCommand |-> <<>>, commandHistory |-> <<>>, historyIndex |-> -1]

\* the dashboard view and the dashboard store as they are created: both
\* charts initialised and without a point, no server-control action under
\* way, no REST call in flight
NewDashboard ==
    [performanceChartInstance |-> TRUE, playersChartInstance |-> TRUE,
     performance |-> <<<<>>, <<>>, <<>>>>, players |-> <<>>, onlinePlayers |-> 0,
     samples |-> 0, handled |-> 0,
     controlLoading |-> FALSE, pendingAction |-> "", call |-> "none",
     loading |-> FALSE, error |-> "null",
     serverStatus |-> Null, storePlayers |-> Null, dashboardOverview |-> Null,
     metrics |-> Null, lastUpdated |-> Null,
     autoRefresh |-> TRUE, refreshInterval |-> 5000, refreshTimer |-> Null,
     refreshTimers |-> {}, timersCreated |-> 0,
     inflight |-> [overview |-> 0, load |-> 0, status |-> 0, players |-> 0, metrics |-> 0],
     viewServerStatus |-> Null]

\* no call has been observed yet
NoHistory ==
    [closes |-> 0, autoConnects |-> 0, sends |-> 0, dropped |-> {}, manual |-> FALSE,
     appended |-> 0, appends |-> 0, commands |-> 0, discarded |-> FALSE]

Init ==
    /\ \E url \in {"valid", "invalid"}, h \in {"console", "status"} :
           client = Only(NewClient(url, <<h>>))
    /\ sockets = [s \in SocketIds |-> NoSocket]
    /\ timers = <<>>
    /\ intervals = {}
    /\ store = NewStore
    /\ trace = NoTrace
    /\ view = NewView
    /\ dashboard = NewDashboard
    /\ hist = [c \in Clients |-> NoHistory]
    /\ last = Event("init", 0, 0, "-", 0, FALSE, FALSE)

Next ==
    \/ \E c \in Clients : Connect(c)
    \/ \E c \in Clients : Disconnect(c)
    \/ \E s \in SocketIds : OpenEvent(s)
    \/ \E s \in SocketIds : ErrorEvent(s)
    \/ \E s \in SocketIds, code \in CloseCodes : CloseEvent(s, code)
    \/ \E i \in 1 .. MaxPending : TimerFire(i)

Spec == Init /\ [][Next]_vars

\* A caller that acts on the status it observes: it invokes connect() only
\* while the status shows neither connected nor reconnecting (the reconnect
\* timers are private to the client and invisible to it).
ConnectWhenIdle(c) ==
    /\ ~client[c].connectionStatus.connected
    /\ ~client[c].connectionStatus.reconnecting
    /\ Connect(c)

CarefulNext ==
    \/ \E c \in Clients : ConnectWhenIdle(c)
    \/ \E c \in Clients : Disconnect(c)
    \/ \E s \in SocketIds : OpenEvent(s)
    \/ \E s \in SocketIds : ErrorEvent(s)
    \/ \E s \in SocketIds, code \in CloseCodes : CloseEvent(s, code)
    \/ \E i \in 1 .. MaxPending : TimerFire(i)

CarefulSpec == Init /\ [][CarefulNext]_vars

(* ------------------------------------------------------------------ *)
(* The heartbeat wrapper                                               *)
(* ------------------------------------------------------------------ *)

\* the running interval timer `id` fires: the callback startPing registered runs
IntervalFire(id) ==
    /\ Quiescent
    /\ \E t \in intervals :
           /\ t.id = id
           /\ Becomes(PingCallback(World, t.owner))
           /\ last' = Event("heartbeat", t.owner, 0, "-", t.every, FALSE, FALSE)
    /\ hist' = hist

\* the console channel as initConsoleWebSocket sets it up before it calls
\* connect(): an AutoReconnectWebSocket with the store's two handlers
NewAutoClient(url) ==
    [NewClient(url, <<"console">>) EXCEPT !.class = "AutoReconnectWebSocket",
                                          !.messageHandlers = <<"consoleMessage">>]

AutoInit ==
    /\ \E url \in {"valid", "invalid"} : client = Only(NewAutoClient(url))
    /\ sockets = [s \in SocketIds |-> NoSocket]
    /\ timers = <<>>
    /\ intervals = {}
    /\ store = NewStore
    /\ trace = NoTrace
    /\ view = NewView
    /\ dashboard = NewDashboard
    /\ hist = [c \in Clients |-> NoHistory]
    /\ last = Event("init", 0, 0, "-", 0, FALSE, FALSE)

HeartbeatNext ==
    \/ \E c \in Clients : Connect(c)
    \/ \E c \in Clients : Disconnect(c)
    \/ \E s \in SocketIds : OpenEvent(s)
    \/ \E s \in SocketIds : ErrorEvent(s)
    \/ \E s \in SocketIds, code \in CloseCodes : CloseEvent(s, code)
    \/ \E i \in 1 .. MaxPending : TimerFire(i)
    \/ \E id \in IntervalIds : IntervalFire(id)

HeartbeatSpec == AutoInit /\ [][HeartbeatNext]_vars

CarefulHeartbeatNext ==
    \/ \E c \in Clients : ConnectWhenIdle(c)
    \/ \E c \in Clients : Disconnect(c)
    \/ \E s \in SocketIds : OpenEvent(s)
    \/ \E s \in SocketIds : ErrorEvent(s)
    \/ \E s \in SocketIds, code \in CloseCodes : CloseEvent(s, code)
    \/ \E i \in 1 .. MaxPending : TimerFire(i)
    \/ \E id \in IntervalIds : IntervalFire(id)

CarefulHeartbeatSpec == AutoInit /\ [][CarefulHeartbeatNext]_vars

(* ------------------------------------------------------------------ *)
(* Outbound frames                                                     *)
(* ------------------------------------------------------------------ *)

\* the owner calls send() with a command frame; the n-th call carries the
\* command n, so that every message passed to send() is told from the others
Send(c) ==
    /\ Constructed(c)
    /\ Quiescent
    /\ hist[c].sends < MaxSends
    /\ LET n == hist[c].sends + 1
           w == sendCommand(World, c, n)
       IN  /\ Becomes(w)
           /\ hist' = [hist EXCEPT ![c].sends = n,
                                   ![c].dropped = IF w.trace.sent = <<>> THEN @ \cup {n} ELSE @]
    /\ last' = Event("send", c, 0, "-", 0, FALSE, FALSE)

\* a transport that fails at most MaxFailures times in a row
FewFailures(c) == hist[c].closes < MaxFailures

ErrorEventOfFew(s) ==
    /\ sockets[s].readyState # "NONE"
    /\ FewFailures(sockets[s].owner)
    /\ ErrorEvent(s)

CloseEventOfFew(s, code) ==
    /\ sockets[s].readyState # "NONE"
    /\ (code # ManualCloseCode /\ ~sockets[s].failing) => FewFailures(sockets[s].owner)
    /\ CloseEvent(s, code)

SendNext ==
    \/ \E c \in Clients : Connect(c)
    \/ \E c \in Clients : Disconnect(c)
    \/ \E s \in SocketIds : OpenEvent(s)
    \/ \E s \in SocketIds : ErrorEventOfFew(s)
    \/ \E s \in SocketIds, code \in CloseCodes : CloseEventOfFew(s, code)
    \/ \E i \in 1 .. MaxPending : TimerFire(i)
    \/ \E id \in IntervalIds : IntervalFire(id)
    \/ \E c \in Clients : Send(c)

SendSpec == AutoInit /\ [][SendNext]_vars

(* ------------------------------------------------------------------ *)
(* Inbound frames and subscribers                                      *)
(* ------------------------------------------------------------------ *)

\* the frames a server sends: the envelope {type, timestamp, data} with the
\* types the console channel knows and one it does not, and a frame that is
\* not JSON
Frames ==
    [type : {"console_log", "connection_established", "pong", "unknown"},
     timestamp : {"t1", "t2"}, data : {"Hello"}]
    \cup {[type |-> "malformed", timestamp |-> "", data |-> ""]}

\* the frames that carry no console output
ControlFrames == {f \in Frames : f.type \in {"pong", "malformed"} /\ f.timestamp # "t2"}

\* the browser delivers an inbound frame on socket s: message events are
\* dispatched only while the socket is OPEN (a frame that arrives after
\* close() was called is discarded by the browser)
MessageEvent(s, frame) ==
    /\ Quiescent
    /\ sockets[s].readyState = "OPEN"
    /\ sockets[s].established
    /\ Becomes(onmessage(World, sockets[s].owner, frame))
    /\ hist' = hist
    /\ last' = Event("message", sockets[s].owner, 0, sockets[s].readyState, 0, FALSE, FALSE)

\* subscribers other than the store: one that returns and one that raises
Subscribers == {"probe", "thrower"}

\* the entries of the two handler lists of instance c
Entries(c) == Len(client[c].messageHandlers) + Len(client[c].connectionHandlers)

\* the owner calls onMessage(h)
OnMessage(c, h) ==
    /\ Constructed(c)
    /\ Quiescent
    /\ Entries(c) < MaxHandlers
    /\ Becomes([onMessage(World, c, h) EXCEPT !.trace.subscriber = h])
    /\ hist' = hist
    /\ last' = Event("onMessage", c, 0, "-", 0, FALSE, FALSE)

\* the owner calls offMessage(h)
OffMessage(c, h) ==
    /\ Constructed(c)
    /\ Quiescent
    /\ Becomes([offMessage(World, c, h) EXCEPT !.trace.subscriber = h])
    /\ hist' = hist
    /\ last' = Event("offMessage", c, 0, "-", 0, FALSE, FALSE)

\* the owner calls onConnectionChange(h)
OnConnectionChange(c, h) ==
    /\ Constructed(c)
    /\ Quiescent
    /\ Entries(c) < MaxHandlers
    /\ Becomes([onConnectionChange(World, c, h) EXCEPT !.trace.subscriber = h])
    /\ hist' = hist
    /\ last' = Event("onConnectionChange", c, 0, "-", 0, FALSE, FALSE)

\* the owner calls offConnectionChange(h)
OffConnectionChange(c, h) ==
    /\ Constructed(c)
    /\ Quiescent
    /\ Becomes([offConnectionChange(World, c, h) EXCEPT !.trace.subscriber = h])
    /\ hist' = hist
    /\ last' = Event("offConnectionChange", c, 0, "-", 0, FALSE, FALSE)

\* a client nobody has subscribed to yet: new WebSocketClient(url)
BareInit ==
    /\ client = Only(NewClient("valid", <<>>))
    /\ sockets = [s \in SocketIds |-> NoSocket]
    /\ timers = <<>>
    /\ intervals = {}
    /\ store = NewStore
    /\ trace = NoTrace
    /\ view = NewView
    /\ dashboard = NewDashboard
    /\ hist = [c \in Clients |-> NoHistory]
    /\ last = Event("init", 0, 0, "-", 0, FALSE, FALSE)

\* the owner calls connect() the way the store does: on a client none of
\* whose attempts is under way (no socket of it is left, no timer is pending)
ConnectAtRest(c) ==
    /\ Pending = 0
    /\ Connect(c)

HandlerNext ==
    \/ \E c \in Clients : ConnectAtRest(c)
    \/ \E c \in Clients : Disconnect(c)
    \/ \E s \in SocketIds : OpenEvent(s)
    \/ \E s \in SocketIds : ErrorEventOfFew(s)
    \/ \E s \in SocketIds, code \in CloseCodes : CloseEventOfFew(s, code)
    \/ \E i \in 1 .. MaxPending : TimerFire(i)
    \/ \E s \in SocketIds, frame \in ControlFrames : MessageEvent(s, frame)
    \/ \E c \in Clients, h \in Subscribers : OnMessage(c, h)
    \/ \E c \in Clients, h \in Subscribers : OffMessage(c, h)
    \/ \E c \in Clients, h \in Subscribers : OnConnectionChange(c, h)
    \/ \E c \in Clients, h \in Subscribers : OffConnectionChange(c, h)

HandlerSpec == BareInit /\ [][HandlerNext]_vars

\* subscribers whose handlers unsubscribe while they are invoked
Unsubscribers == {"probe", "once", "remover"}

UnsubscribeNext ==
    \/ \E c \in Clients : ConnectAtRest(c)
    \/ \E s \in SocketIds : OpenEvent(s)
    \/ \E s \in SocketIds, code \in {1000} : CloseEventOfFew(s, code)
    \/ \E s \in SocketIds, frame \in ControlFrames : MessageEvent(s, frame)
    \/ \E c \in Clients, h \in Unsubscribers : OnMessage(c, h)
    \/ \E c \in Clients, h \in Unsubscribers : OffMessage(c, h)
    \/ \E c \in Clients, h \in Unsubscribers : OnConnectionChange(c, h)
    \/ \E c \in Clients, h \in Unsubscribers : OffConnectionChange(c, h)

UnsubscribeSpec == BareInit /\ [][UnsubscribeNext]_vars

(* ------------------------------------------------------------------ *)
(* The console channel                                                 *)
(* ------------------------------------------------------------------ *)

\* the view clears the console: clearConsoleMessages()
ClearConsole ==
    /\ Quiescent
    /\ Becomes([World EXCEPT !.store = clearConsoleMessages(@)])
    /\ hist' = [c \in Clients |-> [hist[c] EXCEPT !.appended = 0]]
    /\ last' = Event("clear", 0, 0, "-", 0, FALSE, FALSE)

\* a frame arrives on an established socket of the console channel
ConsoleMessageEvent(s, frame) ==
    /\ frame.type = "console_log" => Len(store.consoleMessages) < MaxBuffer
    /\ MessageEvent(s, frame)

ConsoleNext ==
    \/ \E c \in Clients : ConnectAtRest(c)
    \/ \E c \in Clients : Disconnect(c)
    \/ \E s \in SocketIds : OpenEvent(s)
    \/ \E s \in SocketIds : ErrorEventOfFew(s)
    \/ \E s \in SocketIds, code \in CloseCodes : CloseEventOfFew(s, code)
    \/ \E i \in 1 .. MaxPending : TimerFire(i)
    \/ \E s \in SocketIds, frame \in Frames : ConsoleMessageEvent(s, frame)
    \/ ClearConsole

ConsoleSpec == AutoInit /\ [][ConsoleNext]_vars

(* ------------------------------------------------------------------ *)
(* The console buffer                                                  *)
(* ------------------------------------------------------------------ *)

\* the n-th entry appended to the buffer since it was last empty: a
\* console_log frame of the server or the echo of a command, told from the
\* other entries by its number
Arrival(n, timestamp) == [type |-> "console_log", timestamp |-> timestamp, data |-> n]

\* one more entry has gone into the buffer
Appended ==
    [c \in Clients |-> [hist[c] EXCEPT !.appended = @ + 1, !.appends = @ + 1]]

\* the store's message handler receives a console_log frame
ConsoleLogArrives(timestamp) ==
    /\ \A c \in Clients : hist[c].appends < MaxAppends
    /\ \E c \in Clients :
           Becomes([World EXCEPT !.store =
                       StoreHandler(@, "consoleMessage", Arrival(hist[c].appended + 1, timestamp))])
    /\ hist' = Appended
    /\ last' = Event("console_log", 0, 0, "-", 0, FALSE, FALSE)

\* the view echoes a command it has sent: addConsoleMessage(entry)
EchoCommand(timestamp) ==
    /\ \A c \in Clients : hist[c].appends < MaxAppends
    /\ \E c \in Clients :
           Becomes([World EXCEPT !.store =
                       addConsoleMessage(@, Arrival(hist[c].appended + 1, timestamp))])
    /\ hist' = Appended
    /\ last' = Event("echo", 0, 0, "-", 0, FALSE, FALSE)

\* the store's message handler receives a frame of another type
OtherFrameArrives(frame) ==
    /\ frame.type \notin {"console_log", "malformed"}
    /\ Becomes([World EXCEPT !.store = StoreHandler(@, "consoleMessage", frame)])
    /\ hist' = hist
    /\ last' = Event(frame.type, 0, 0, "-", 0, FALSE, FALSE)

\* the number of entries the console view displays
maxMessages == 500

\* the store once n console_log frames have arrived and none was cleared:
\* empty, two entries short of what the view displays, or two entries short
\* of the cap
BufferInit ==
    /\ client = Only(NewAutoClient("valid"))
    /\ sockets = [s \in SocketIds |-> NoSocket]
    /\ timers = <<>>
    /\ intervals = {}
    /\ trace = NoTrace
    /\ view = NewView
    /\ dashboard = NewDashboard
    /\ last = Event("init", 0, 0, "-", 0, FALSE, FALSE)
    /\ \E n \in {0, maxMessages - 2, maxConsoleMessages - 2} :
           /\ store = [NewStore EXCEPT !.consoleMessages = [i \in 1 .. n |-> Arrival(i, "t1")]]
           /\ hist = [c \in Clients |-> [NoHistory EXCEPT !.appended = n]]

BufferNext ==
    \/ \E timestamp \in {"t1", "t2"} : ConsoleLogArrives(timestamp)
    \/ \E timestamp \in {"t1", "t2"} : EchoCommand(timestamp)
    \/ \E frame \in Frames : OtherFrameArrives(frame)
    \/ ClearConsole

BufferSpec == BufferInit /\ [][BufferNext]_vars

(* ------------------------------------------------------------------ *)
(* The store's console channel and the console view                    *)
(* ------------------------------------------------------------------ *)

\* (a variant of sendConsoleCommand that does not look at the mirrored status)
sendConsoleCommand_NoStatusCheck(w, command) ==
    IF w.store.consoleWs = Null
    THEN [w EXCEPT !.trace.returned = "false"]
    ELSE [sendCommand(w, w.store.consoleWs, command) EXCEPT !.trace.returned = "true"]

\* sendConsoleCommand: false when the store holds no console client or the
\* mirrored status is not connected; otherwise sendCommand on the client and
\* true (sendCommand raises nothing, so the catch branch is never taken)
sendConsoleCommand(w, command) ==
    IF w.store.consoleWs = Null \/ ~w.store.consoleStatus.connected
    THEN [w EXCEPT !.trace.returned = "false"]
    ELSE [sendCommand(w, w.store.consoleWs, command) EXCEPT !.trace.returned = "true"]

RECURSIVE trimStart(_)
trimStart(text) ==
    IF text # <<>> /\ Head(text) = " " THEN trimStart(Tail(text)) ELSE text

RECURSIVE trimEnd(_)
trimEnd(text) ==
    IF text # <<>> /\ text[Len(text)] = " "
    THEN trimEnd(SubSeq(text, 1, Len(text) - 1))
    ELSE text

\* String.prototype.trim on a line of characters
trim(text) == trimEnd(trimStart(text))

maxHistorySize == 50

\* (a variant of AddToHistory that never collapses a repeated command)
AddToHistory_NoDedup(history, command) ==
    LET pushed == Append(history, command)
    IN  IF Len(pushed) > maxHistorySize THEN Tail(pushed) ELSE pushed

\* "Add to history": push the command unless it equals the last entry, then
\* shift the oldest entry out when the history is longer than maxHistorySize
AddToHistory(history, command) ==
    IF history = <<>> \/ history[Len(history)] # command
    THEN LET pushed == Append(history, command)
         IN  IF Len(pushed) > maxHistorySize THEN Tail(pushed) ELSE pushed
    ELSE history

\* (a variant of EchoEntry that shows the command without the prompt)
EchoEntry_NoPrompt(command, now) ==
    [type |-> "console_log", timestamp |-> now,
     data |-> [level |-> "COMMAND", source |-> "Client", message |-> command]]

\* the entry the view adds to the console output for a command it has sent
EchoEntry(command, now) ==
    [type |-> "console_log", timestamp |-> now,
     data |-> [level |-> "COMMAND", source |-> "Client", message |-> <<">", " ">> \o command]]

\* sendCommand of the console view, the input line being w.view.currentCommand
ViewSendCommand(w, now) ==
    LET command == trim(w.view.currentCommand)
    IN  IF command = <<>> THEN w
        ELSE IF ~w.store.consoleStatus.connected
        THEN [w EXCEPT !.trace.notices = Append(@, "error: not connected")]
        ELSE LET w1 == [w EXCEPT !.view.commandHistory = AddToHistory(@, command),
                                 !.view.historyIndex = -1]
                 w2 == sendConsoleCommand(w1, command)
             IN  IF w2.trace.returned = "true"
                 THEN [w2 EXCEPT !.view.currentCommand = <<>>,
                                 !.store = addConsoleMessage(@, EchoEntry(command, now))]
                 ELSE [w2 EXCEPT !.trace.notices = Append(@, "error: send failed")]

\* the lines a user can type: up to MaxText characters, blank or not
Texts == UNION {[1 .. n -> {" ", "a"}] : n \in 0 .. MaxText}

\* one more command was submitted
Submitted == [c \in Clients |-> [hist[c] EXCEPT !.commands = @ + 1]]

\* a caller of the store invokes sendConsoleCommand(command)
SendConsoleCommand(command) ==
    /\ Quiescent
    /\ \A c \in Clients : hist[c].commands < MaxCommands
    /\ Becomes(sendConsoleCommand(World, command))
    /\ hist' = Submitted
    /\ last' = Event("sendConsoleCommand", store.consoleWs, 0, "-", 0, FALSE, FALSE)

\* the user types `text` into the input line and presses Enter
SubmitCommand(text, now) ==
    /\ Quiescent
    /\ \A c \in Clients : hist[c].commands < MaxCommands
    /\ Becomes(ViewSendCommand([World EXCEPT !.view.currentCommand = text,
                                              !.trace.typed = text], now))
    /\ hist' = Submitted
    /\ last' = Event("submit", store.consoleWs, 0, "-", 0, FALSE, FALSE)

\* instance c can be forgotten: the store has dropped it and the browser holds
\* no socket and no timer of it any more
Free(c) ==
    Constructed(c) =>
        /\ hist[c].discarded
        /\ \A s \in SocketIds : sockets[s].readyState # "NONE" => sockets[s].owner # c
        /\ \A i \in DOMAIN timers : timers[i].owner # c
        /\ \A t \in intervals : t.owner # c

FreeClient == CHOOSE c \in Clients : Free(c) /\ \A d \in Clients : Free(d) => c <= d

\* initConsoleWebSocket: nothing when the store holds a console client;
\* otherwise construct one in slot c, register the store's two handlers and
\* call connect() (a rejection is logged by the catch handler)
initConsoleWebSocket(w, c) ==
    IF w.store.consoleWs # Null THEN w
    ELSE connect([w EXCEPT !.client[c] = NewAutoClient("valid"), !.store.consoleWs = c], c)

\* consoleWs.value.disconnect(); consoleWs.value = null
DropConsoleClient(w) ==
    IF w.store.consoleWs # Null
    THEN [Disconnected(w, w.store.consoleWs) EXCEPT !.store.consoleWs = Null]
    ELSE w

\* disconnectAll: drop the client, then reset the mirrored statuses
disconnectAll(w) ==
    [DropConsoleClient(w) EXCEPT !.store.consoleStatus = ClosedStatus,
                                 !.store.statusConnectionStatus = ClosedStatus]

\* reconnectConsole: drop the client, then initConsoleWebSocket
reconnectConsole(w, c) == initConsoleWebSocket(DropConsoleClient(w), c)

\* the history of the instance the store has just dropped or constructed
StoreHistory(w) ==
    [c \in Clients |->
        IF w.store.consoleWs = c /\ store.consoleWs # c
        THEN [NoHistory EXCEPT !.appended = hist[c].appended, !.appends = hist[c].appends,
                               !.commands = hist[c].commands]
        ELSE IF store.consoleWs = c /\ w.store.consoleWs # c
        THEN [hist[c] EXCEPT !.discarded = TRUE, !.manual = TRUE]
        ELSE hist[c]]

\* a store action ends in the state w
StoreBecomes(w) ==
    /\ Becomes([w EXCEPT !.timers = IF store.consoleWs # Null /\ w.store.consoleWs # store.consoleWs
                                     THEN MarkStale(@, store.consoleWs, TRUE)
                                     ELSE @])
    /\ hist' = StoreHistory(w)

\* a view calls initConsoleWebSocket() (the store itself does when it is created)
InitConsoleWebSocket ==
    /\ Quiescent
    /\ store.consoleWs = Null => (Pending < MaxPending /\ \E c \in Clients : Free(c))
    /\ StoreBecomes(initConsoleWebSocket(World, FreeClient))
    /\ last' = Event("initConsoleWebSocket", 0, 0, "-", 0, FALSE, FALSE)

DisconnectAll ==
    /\ Quiescent
    /\ StoreBecomes(disconnectAll(World))
    /\ last' = Event("disconnectAll", store.consoleWs, 0, "-", 0, FALSE, FALSE)

\* reconnectConsole() while the store holds a client: the new client is
\* constructed while the dropped one is still closing its socket
ReconnectConsole ==
    /\ Quiescent
    /\ Pending < MaxPending
    /\ \E c \in Clients : c # store.consoleWs /\ Free(c)
    /\ LET c == CHOOSE c \in Clients : c # store.consoleWs /\ Free(c)
       IN  StoreBecomes(reconnectConsole(World, c))
    /\ last' = Event("reconnectConsole", store.consoleWs, 0, "-", 0, FALSE, FALSE)

\* the store before it has created a client
StoreInit ==
    /\ client = [c \in Clients |-> NotConstructed]
    /\ sockets = [s \in SocketIds |-> NoSocket]
    /\ timers = <<>>
    /\ intervals = {}
    /\ store = NewStore
    /\ trace = NoTrace
    /\ view = NewView
    /\ dashboard = NewDashboard
    /\ hist = [c \in Clients |-> NoHistory]
    /\ last = Event("init", 0, 0, "-", 0, FALSE, FALSE)

StoreNext ==
    \/ InitConsoleWebSocket
    \/ DisconnectAll
    \/ ReconnectConsole
    \/ \E s \in SocketIds : OpenEvent(s)
    \/ \E s \in SocketIds : ErrorEventOfFew(s)
    \/ \E s \in SocketIds, code \in CloseCodes : CloseEventOfFew(s, code)
    \/ \E i \in 1 .. MaxPending : TimerFire(i)
    \/ \E s \in SocketIds, frame \in Frames : ConsoleMessageEvent(s, frame)
    \/ ClearConsole

StoreSpec == StoreInit /\ [][StoreNext]_vars

\* (a variant of navigateHistory that counts the entries from the oldest)
navigateHistory_FromOldest(v, direction) ==
    IF Len(v.commandHistory) = 0 THEN v
    ELSE LET newIndex == v.historyIndex + direction
         IN  IF newIndex >= 0 /\ newIndex < Len(v.commandHistory)
             THEN [v EXCEPT !.historyIndex = newIndex,
                            !.currentCommand = v.commandHistory[newIndex + 1]]
             ELSE IF newIndex < 0
             THEN [v EXCEPT !.historyIndex = -1, !.currentCommand = <<>>]
             ELSE v

\* navigateHistory(direction): 1 for ArrowUp, -1 for ArrowDown (the entry at
\* commandIndex, counted from 0, is the entry commandIndex + 1 here)
navigateHistory(v, direction) ==
    IF Len(v.commandHistory) = 0 THEN v
    ELSE LET newIndex == v.historyIndex + direction
         IN  IF newIndex >= 0 /\ newIndex < Len(v.commandHistory)
             THEN LET commandIndex == Len(v.commandHistory) - 1 - newIndex
                  IN  [v EXCEPT !.historyIndex = newIndex,
                                !.currentCommand = v.commandHistory[commandIndex + 1]]
             ELSE IF newIndex < 0
             THEN [v EXCEPT !.historyIndex = -1, !.currentCommand = <<>>]
             ELSE v

\* handleKeyDown: the user presses ArrowUp or ArrowDown in the input line
ArrowKey(key) ==
    /\ Quiescent
    /\ Becomes([World EXCEPT !.view = navigateHistory(@, IF key = "ArrowUp" THEN 1 ELSE -1)])
    /\ hist' = hist
    /\ last' = Event(key, 0, 0, "-", 0, FALSE, FALSE)

\* the lines entered while the history is walked: a blank one and the two
\* commands the history starts with
Lines == {<<>>, <<"a">>, <<"a", "a">>}

\* the console view in use: commands are submitted while the channel is
\* connected or not, and the history is walked with the arrow keys
HistoryNext ==
    \/ InitConsoleWebSocket
    \/ \E s \in SocketIds : OpenEvent(s)
    \/ \E s \in SocketIds, code \in {1000} : CloseEventOfFew(s, code)
    \/ \E text \in Lines, now \in {"t1"} : SubmitCommand(text, now)
    \/ \E key \in {"ArrowUp", "ArrowDown"} : ArrowKey(key)

\* the console channel with its callers: views that initialise or reconnect
\* it and send commands through it
CommandNext ==
    \/ InitConsoleWebSocket
    \/ ReconnectConsole
    \/ \E s \in SocketIds : OpenEvent(s)
    \/ \E s \in SocketIds : ErrorEventOfFew(s)
    \/ \E s \in SocketIds, code \in CloseCodes : CloseEventOfFew(s, code)
    \/ \E i \in 1 .. MaxPending : TimerFire(i)
    \/ \E command \in {<<"a">>} : SendConsoleCommand(command)

CommandSpec == StoreInit /\ [][CommandNext]_vars

\* the status channel as initStatusWebSocket sets it up before it calls connect()
NewStatusClient(url) ==
    [NewClient(url, <<"status">>) EXCEPT !.class = "AutoReconnectWebSocket",
                                         !.messageHandlers = <<"statusMessage">>]

\* (a variant of initStatusWebSocket that subscribes again to the client the
\* store holds)
initStatusWebSocket_SubscribesAgain(w, c) ==
    IF w.store.statusWs # Null
    THEN onConnectionChange(w, w.store.statusWs, "status")
    ELSE connect([w EXCEPT !.client[c] = NewStatusClient("valid"), !.store.statusWs = c], c)

\* initStatusWebSocket: nothing when the store holds a status client;
\* otherwise construct one in slot c, register the store's two handlers and
\* call connect()
initStatusWebSocket(w, c) ==
    IF w.store.statusWs # Null THEN w
    ELSE connect([w EXCEPT !.client[c] = NewStatusClient("valid"), !.store.statusWs = c], c)

\* connectAll: initConsoleWebSocket(), then initStatusWebSocket()
connectAll(w, c, d) == initStatusWebSocket(initConsoleWebSocket(w, c), d)

\* the lowest of a set of slots (0 when there is none)
Lowest(S) == IF S = {} THEN 0 ELSE CHOOSE c \in S : \A d \in S : c <= d

\* a view calls initStatusWebSocket()
InitStatusWebSocket ==
    /\ Quiescent
    /\ store.statusWs = Null => (Pending < MaxPending /\ \E c \in Clients : Free(c))
    /\ Becomes(initStatusWebSocket(World, FreeClient))
    /\ hist' = hist
    /\ last' = Event("initStatusWebSocket", 0, 0, "-", 0, FALSE, FALSE)

\* connectAll() is called (the store itself calls it when it is created)
ConnectAll ==
    /\ Quiescent
    /\ LET free == {c \in Clients : Free(c)}
           c == IF store.consoleWs = Null THEN Lowest(free) ELSE 0
           d == IF store.statusWs = Null THEN Lowest(free \ {c}) ELSE 0
           needed == Bit(store.consoleWs = Null) + Bit(store.statusWs = Null)
       IN  /\ Cardinality(free) >= needed
           /\ Pending + needed <= MaxPending
           /\ Becomes(connectAll(World, c, d))
    /\ hist' = hist
    /\ last' = Event("connectAll", 0, 0, "-", 0, FALSE, FALSE)

\* the two channels of the store and the views that initialise them
ChannelsNext ==
    \/ InitConsoleWebSocket
    \/ InitStatusWebSocket
    \/ ConnectAll
    \/ \E s \in SocketIds : OpenEvent(s)
    \/ \E s \in SocketIds : ErrorEventOfFew(s)
    \/ \E s \in SocketIds, code \in CloseCodes : CloseEventOfFew(s, code)
    \/ \E i \in 1 .. MaxPending : TimerFire(i)

ChannelsSpec == StoreInit /\ [][ChannelsNext]_vars

\* a history of n commands, no two neighbours equal
History(n) == [i \in 1 .. n |-> IF i % 2 = 1 THEN <<"a">> ELSE <<"a", "a">>]

\* the store before it has created a client, and a console view that has
\* sent no command yet or one command less than its history can hold (with
\* the console cleared since)
ViewInit ==
    /\ client = [c \in Clients |-> NotConstructed]
    /\ sockets = [s \in SocketIds |-> NoSocket]
    /\ timers = <<>>
    /\ intervals = {}
    /\ store = NewStore
    /\ trace = NoTrace
    /\ \E n \in {0, maxHistorySize - 1} : view = [NewView EXCEPT !.commandHistory = History(n)]
    /\ dashboard = NewDashboard
    /\ hist = [c \in Clients |-> NoHistory]
    /\ last = Event("init", 0, 0, "-", 0, FALSE, FALSE)

ViewNext ==
    \/ InitConsoleWebSocket
    \/ \E s \in SocketIds : OpenEvent(s)
    \/ \E s \in SocketIds : ErrorEventOfFew(s)
    \/ \E s \in SocketIds, code \in CloseCodes : CloseEventOfFew(s, code)
    \/ \E i \in 1 .. MaxPending : TimerFire(i)
    \/ \E text \in Texts : SendConsoleCommand(trim(text))
    \/ \E text \in Texts, now \in {"t1"} : SubmitCommand(text, now)

ViewSpec == ViewInit /\ [][ViewNext]_vars

HistorySpec == ViewInit /\ [][HistoryNext]_vars

(* ------------------------------------------------------------------ *)
(* Reconnection under fair scheduling                                  *)
(* ------------------------------------------------------------------ *)

\* a caller that never calls disconnect()
UnattendedNext ==
    \/ \E c \in Clients : Connect(c)
    \/ \E s \in SocketIds : OpenEvent(s)
    \/ \E s \in SocketIds : ErrorEvent(s)
    \/ \E s \in SocketIds, code \in CloseCodes : CloseEvent(s, code)
    \/ \E i \in 1 .. MaxPending : TimerFire(i)

\* a connection attempt does not stay undecided: the browser establishes
\* the transport or gives up (it times the handshake out)
Resolves(s) ==
    /\ sockets[s].readyState = "CONNECTING"
    /\ OpenEvent(s) \/ ErrorEvent(s)

\* the close event that follows an error event is dispatched
Closes(s) == sockets[s].failing /\ CloseEvent(s, 1006)

\* the event loop runs every timer that is due and dispatches every
\* transport event
Fairness ==
    /\ \A i \in 1 .. MaxPending : WF_vars(TimerFire(i))
    /\ \A s \in SocketIds : WF_vars(Resolves(s))
    /\ \A s \in SocketIds : WF_vars(Closes(s))

FairSpec == Init /\ [][UnattendedNext]_vars /\ Fairness

(* ------------------------------------------------------------------ *)
(* The console view's display and the dashboard                        *)
(* ------------------------------------------------------------------ *)

Max(a, b) == IF a > b THEN a ELSE b

\* Array.prototype.slice(begin): the entries from index `begin` (from 0) to
\* the end, a negative index counting from the end
slice(seq, begin) ==
    LET from == IF begin < 0 THEN Max(Len(seq) + begin, 0) ELSE Min(begin, Len(seq))
    IN  SubSeq(seq, from + 1, Len(seq))

\* (a variant of displayMessages that shows the whole buffer)
displayMessages_All(messages) == messages

\* displayMessages: the buffer, or its last maxMessages entries
displayMessages(messages) ==
    IF Len(messages) <= maxMessages THEN messages ELSE slice(messages, 0 - maxMessages)

\* the number of points a chart series keeps
maxPoints == 50

\* (a variant of KeepLast that trims a series only when it is two points over)
KeepLast_Late(data) ==
    IF Len(data) > maxPoints + 1 THEN slice(data, 0 - maxPoints) ELSE data

\* "Keep only last 50 points": if (data.length > 50) data = data.slice(-50)
KeepLast(data) ==
    IF Len(data) > maxPoints THEN slice(data, 0 - maxPoints) ELSE data

\* the handler setupWebSocket registers, on a performance_update message
\* that arrives at time `now`: one point per series, then the cap
performance_update(d, now, data) ==
    LET d1 == IF d.performanceChartInstance
              THEN [d EXCEPT !.performance =
                        <<KeepLast(Append(@[1], <<now, data.tps>>)),
                          KeepLast(Append(@[2], <<now, data.cpu_usage>>)),
                          KeepLast(Append(@[3], <<now, data.memory_usage>>))>>]
              ELSE d
    IN  IF d1.playersChartInstance
        THEN [d1 EXCEPT !.players = KeepLast(Append(@, <<now, d.onlinePlayers>>))]
        ELSE d1

\* the same handler on a dashboard_summary message (onlinePlayers is kept
\* as the length of the list)
dashboard_summary(d, online_players) == [d EXCEPT !.onlinePlayers = online_players]

\* the samples a performance_update carries
Samples ==
    {[tps |-> 20, cpu_usage |-> 10, memory_usage |-> 30],
     [tps |-> 12, cpu_usage |-> 95, memory_usage |-> 80]}

\* the handler receives a performance_update; the n-th one arrives at time n
PerformanceUpdate(data) ==
    /\ dashboard.handled < MaxSamples
    /\ Becomes([World EXCEPT !.dashboard =
                    [performance_update(@, @.samples + 1, data)
                        EXCEPT !.samples = @ + 1, !.handled = @ + 1]])
    /\ hist' = hist
    /\ last' = Event("performance_update", 0, 0, "-", 0, FALSE, FALSE)

\* the handler receives a dashboard_summary
DashboardSummary(online_players) ==
    /\ Becomes([World EXCEPT !.dashboard = dashboard_summary(@, online_players)])
    /\ hist' = hist
    /\ last' = Event("dashboard_summary", 0, 0, "-", 0, FALSE, FALSE)

\* what a REST call comes back with: a result (body 1 or 2), an error
\* response with an ApiError body, or no response at all
Responses ==
    {[ok |-> TRUE, body |-> 1], [ok |-> TRUE, body |-> 2],
     [ok |-> FALSE, body |-> 1], [ok |-> FALSE, body |-> Null]}

\* handleApiError: the error of the response body, or 'Network Error'
handleApiError(response) ==
    IF response.body # Null THEN "Internal Server Error" ELSE "Network Error"

\* apiCall: the data of a call that succeeded, or null and the error; the
\* catch block lets nothing out
apiCall(response) ==
    IF response.ok
    THEN [data |-> response.body, error |-> "null"]
    ELSE [data |-> Null, error |-> handleApiError(response)]

\* fetchServerStatus after its apiCall has returned r
fetchServerStatus(d, r, now) ==
    IF r.data # Null THEN [d EXCEPT !.serverStatus = r.data, !.lastUpdated = now]
    ELSE IF r.error # "null" THEN [d EXCEPT !.error = r.error]
    ELSE d

\* fetchOnlinePlayers after its apiCall has returned r
fetchOnlinePlayers(d, r) ==
    IF r.data # Null THEN [d EXCEPT !.storePlayers = r.data]
    ELSE IF r.error # "null" THEN [d EXCEPT !.error = r.error]
    ELSE d

\* fetchMetrics after its apiCall has returned r
fetchMetrics(d, r) ==
    IF r.data # Null THEN [d EXCEPT !.metrics = r.data]
    ELSE IF r.error # "null" THEN [d EXCEPT !.error = r.error]
    ELSE d

\* fetchDashboardOverview up to its await
BeginOverview(d) == [d EXCEPT !.loading = TRUE, !.error = "null"]

\* (a variant of fetchDashboardOverview that leaves loading set when the
\* call has failed)
fetchDashboardOverview_KeepsLoading(d, r, now) ==
    IF r.data # Null
    THEN [d EXCEPT !.dashboardOverview = r.data, !.serverStatus = r.data,
                   !.storePlayers = r.data, !.lastUpdated = now, !.loading = FALSE]
    ELSE [d EXCEPT !.error = r.error]

\* fetchDashboardOverview after its apiCall has returned r (the overview
\* with body v has server_status v and online_players v)
fetchDashboardOverview(d, r, now) ==
    LET d1 == IF r.data # Null
              THEN [d EXCEPT !.dashboardOverview = r.data, !.serverStatus = r.data,
                             !.storePlayers = r.data, !.lastUpdated = now]
              ELSE IF r.error # "null" THEN [d EXCEPT !.error = r.error]
              ELSE d
    IN  [d1 EXCEPT !.loading = FALSE]

\* the value of a call of a function that ends without a return statement
Undefined == -1

\* what `await dashboardStore.fetchDashboardOverview()` evaluates to: the
\* function returns nothing
OverviewResult(r) == Undefined

\* loadDashboardData after its await: data.server_status raises a TypeError
\* when data is undefined, and the catch block shows the error message
loadDashboardData(w, data) ==
    IF data = Undefined \/ data = Null
    THEN [w EXCEPT !.trace.notices = Append(@, "error")]
    ELSE [w EXCEPT !.dashboard.viewServerStatus = data, !.dashboard.onlinePlayers = data]

\* (a variant of startAutoRefresh that does not clear the timer it holds)
startAutoRefresh_NoClear(d) ==
    IF d.autoRefresh
    THEN [d EXCEPT !.refreshTimers = @ \cup {[id |-> d.timersCreated + 1,
                                              every |-> d.refreshInterval]},
                   !.refreshTimer = d.timersCreated + 1,
                   !.timersCreated = @ + 1]
    ELSE d

\* startAutoRefresh: clearInterval on the timer held (the field keeps its
\* id), then setInterval when autoRefresh is on; ids are never handed out twice
startAutoRefresh(d) ==
    LET d1 == IF d.refreshTimer # Null
              THEN [d EXCEPT !.refreshTimers = {t \in @ : t.id # d.refreshTimer}]
              ELSE d
    IN  IF d1.autoRefresh
        THEN [d1 EXCEPT !.refreshTimers = @ \cup {[id |-> d1.timersCreated + 1,
                                                   every |-> d1.refreshInterval]},
                        !.refreshTimer = d1.timersCreated + 1,
                        !.timersCreated = @ + 1]
        ELSE d1

stopAutoRefresh(d) ==
    IF d.refreshTimer # Null
    THEN [d EXCEPT !.refreshTimers = {t \in @ : t.id # d.refreshTimer}, !.refreshTimer = Null]
    ELSE d

setAutoRefresh(d, enabled) ==
    LET d1 == [d EXCEPT !.autoRefresh = enabled]
    IN  IF enabled THEN startAutoRefresh(d1) ELSE stopAutoRefresh(d1)

setRefreshInterval(d, interval) ==
    LET d1 == [d EXCEPT !.refreshInterval = interval]
    IN  IF d1.autoRefresh THEN startAutoRefresh(d1) ELSE d1

\* initialize: fetchDashboardOverview(), fetchMetrics(), startAutoRefresh()
initialize(d) ==
    startAutoRefresh([BeginOverview(d) EXCEPT !.inflight.overview = @ + 1,
                                              !.inflight.metrics = @ + 1])

cleanup(d) == stopAutoRefresh(d)

\* the REST calls of the fetch actions that are in flight
FetchesInFlight ==
    dashboard.inflight.overview + dashboard.inflight.load + dashboard.inflight.status
    + dashboard.inflight.players + dashboard.inflight.metrics

\* a store action that awaits nothing ends in the dashboard d
DashboardBecomes(op, d) ==
    /\ Becomes([World EXCEPT !.dashboard = d])
    /\ hist' = hist
    /\ last' = Event(op, 0, 0, "-", 0, FALSE, FALSE)

Initialize ==
    /\ FetchesInFlight + 2 <= MaxFetches
    /\ dashboard.timersCreated < MaxRefreshTimers
    /\ DashboardBecomes("initialize", initialize(dashboard))

StartAutoRefresh ==
    /\ dashboard.timersCreated < MaxRefreshTimers
    /\ DashboardBecomes("startAutoRefresh", startAutoRefresh(dashboard))

StopAutoRefresh == DashboardBecomes("stopAutoRefresh", stopAutoRefresh(dashboard))

SetAutoRefresh(enabled) ==
    /\ dashboard.timersCreated < MaxRefreshTimers
    /\ DashboardBecomes(IF enabled THEN "setAutoRefresh(true)" ELSE "setAutoRefresh(false)",
                        setAutoRefresh(dashboard, enabled))

SetRefreshInterval(interval) ==
    /\ dashboard.timersCreated < MaxRefreshTimers
    /\ DashboardBecomes("setRefreshInterval", setRefreshInterval(dashboard, interval))

Cleanup == DashboardBecomes("cleanup", cleanup(dashboard))

\* fetchDashboardOverview() is called: by a caller of the store or by
\* initialize
FetchDashboardOverview ==
    /\ FetchesInFlight < MaxFetches
    /\ DashboardBecomes("fetchDashboardOverview",
                        [BeginOverview(dashboard) EXCEPT !.inflight.overview = @ + 1])

\* the interval timer `id` fires: fetchDashboardOverview()
RefreshTick(id) ==
    /\ FetchesInFlight < MaxFetches
    /\ \E t \in dashboard.refreshTimers : t.id = id
    /\ DashboardBecomes("refresh",
                        [BeginOverview(dashboard) EXCEPT !.inflight.overview = @ + 1])

\* the view is mounted: loadDashboardData() awaits fetchDashboardOverview()
LoadDashboardData ==
    /\ FetchesInFlight < MaxFetches
    /\ dashboard.inflight.load = 0
    /\ DashboardBecomes("loadDashboardData",
                        [BeginOverview(dashboard) EXCEPT !.inflight.load = @ + 1])

\* fetchServerStatus(), fetchOnlinePlayers() or fetchMetrics() is called
FetchOther(kind) ==
    /\ FetchesInFlight < MaxFetches
    /\ kind \in {"status", "players", "metrics"}
    /\ DashboardBecomes("fetch", [dashboard EXCEPT !.inflight[kind] = @ + 1])

\* the REST call of one of the fetch actions in flight comes back: the
\* action runs to its end, and so does loadDashboardData when it awaited it
FetchCompletes(w, kind, response, now) ==
    LET r == apiCall(response)
        d == [w.dashboard EXCEPT !.inflight[kind] = @ - 1]
    IN  CASE kind = "overview" -> [w EXCEPT !.dashboard = fetchDashboardOverview(d, r, now)]
          [] kind = "load" ->
                 loadDashboardData([w EXCEPT !.dashboard = fetchDashboardOverview(d, r, now)],
                                   OverviewResult(r))
          [] kind = "status"  -> [w EXCEPT !.dashboard = fetchServerStatus(d, r, now)]
          [] kind = "players" -> [w EXCEPT !.dashboard = fetchOnlinePlayers(d, r)]
          [] kind = "metrics" -> [w EXCEPT !.dashboard = fetchMetrics(d, r)]

FetchKinds == {"overview", "load", "status", "players", "metrics"}

FetchResponse(kind, response, now) ==
    /\ dashboard.inflight[kind] > 0
    /\ Becomes(FetchCompletes(World, kind, response, now))
    /\ hist' = hist
    /\ last' = Event(IF response.ok THEN "fetch ok" ELSE "fetch failed", 0, response.body,
                     kind, 0, FALSE, FALSE)

\* the actions the three buttons of the view pass to handleServerControl
ControlActions == {"start", "stop", "restart"}

\* handleServerControl up to its await: executeServerControl(action) runs
\* startServer / stopServer / restartServer up to the REST call
handleServerControl(d, action) ==
    [d EXCEPT !.controlLoading = TRUE, !.pendingAction = action,
              !.loading = TRUE, !.error = "null", !.call = "control"]

\* the notice handleServerControl shows once executeServerControl has
\* returned `result` or has thrown: ElMessage.success after the await,
\* ElMessage.error in the catch block
ControlNotice(result, thrown) == IF thrown THEN "error" ELSE "success"

\* startServer / stopServer / restartServer return data !== null, and
\* handleServerControl finishes: the notice, then the finally block
ControlReturns(w, result) ==
    [w EXCEPT !.dashboard.loading = FALSE, !.dashboard.call = "none",
              !.dashboard.controlLoading = FALSE, !.dashboard.pendingAction = "",
              !.trace.returned = IF result THEN "true" ELSE "false",
              !.trace.notices = Append(@, ControlNotice(result, FALSE))]

\* the REST call in flight completes: the server-control call (on success
\* fetchServerStatus is awaited next, on failure error is set) or the
\* status call that follows it
RestCompletes(w, response, now) ==
    LET r == apiCall(response)
    IN  IF w.dashboard.call = "control"
        THEN IF r.data # Null
             THEN [w EXCEPT !.dashboard.call = "status"]
             ELSE ControlReturns([w EXCEPT !.dashboard.error = r.error], FALSE)
        ELSE ControlReturns([w EXCEPT !.dashboard = fetchServerStatus(@, r, now)], TRUE)

\* the user clicks one of the server-control buttons (they are disabled
\* while an action is under way)
HandleServerControl(action) ==
    /\ ~dashboard.controlLoading
    /\ Becomes([World EXCEPT !.dashboard = handleServerControl(@, action)])
    /\ hist' = hist
    /\ last' = Event("handleServerControl", 0, 0, "-", 0, FALSE, FALSE)

\* the REST call of the server-control action in flight comes back
RestResponse(response, now) ==
    /\ dashboard.call # "none"
    /\ Becomes(RestCompletes(World, response, now))
    /\ hist' = hist
    /\ last' = Event(IF response.ok THEN "rest ok" ELSE "rest failed", 0, 0, dashboard.call,
                     0, FALSE, FALSE)

\* the series of a chart after n performance_update messages
Drawn(n, value) == [i \in 1 .. n |-> <<i, value>>]

\* the dashboard as it is mounted, or after two samples less than a series
\* keeps; a chart whose element is missing has no instance and no points
DashboardInit ==
    /\ client = [c \in Clients |-> NotConstructed]
    /\ sockets = [s \in SocketIds |-> NoSocket]
    /\ timers = <<>>
    /\ intervals = {}
    /\ store = NewStore
    /\ trace = NoTrace
    /\ view = NewView
    /\ hist = [c \in Clients |-> NoHistory]
    /\ last = Event("init", 0, 0, "-", 0, FALSE, FALSE)
    /\ \E n \in {0, maxPoints - 2}, p, q \in BOOLEAN :
           dashboard =
               [NewDashboard EXCEPT
                   !.performanceChartInstance = p, !.playersChartInstance = q, !.samples = n,
                   !.performance = IF p THEN <<Drawn(n, 20), Drawn(n, 10), Drawn(n, 30)>> ELSE @,
                   !.players = IF q THEN Drawn(n, 0) ELSE @]

DashboardNext ==
    \/ \E data \in Samples : PerformanceUpdate(data)
    \/ \E online_players \in {0, 2} : DashboardSummary(online_players)

DashboardSpec == DashboardInit /\ [][DashboardNext]_vars

\* the dashboard store as it is created
DashboardStoreInit ==
    /\ client = [c \in Clients |-> NotConstructed]
    /\ sockets = [s \in SocketIds |-> NoSocket]
    /\ timers = <<>>
    /\ intervals = {}
    /\ store = NewStore
    /\ trace = NoTrace
    /\ view = NewView
    /\ dashboard = NewDashboard
    /\ hist = [c \in Clients |-> NoHistory]
    /\ last = Event("init", 0, 0, "-", 0, FALSE, FALSE)

\* the auto-refresh timer and the polls it starts
RefreshNext ==
    \/ Initialize
    \/ StartAutoRefresh
    \/ StopAutoRefresh
    \/ \E enabled \in BOOLEAN : SetAutoRefresh(enabled)
    \/ \E interval \in {1000, 5000} : SetRefreshInterval(interval)
    \/ Cleanup
    \/ \E id \in 1 .. MaxRefreshTimers + 1 : RefreshTick(id)
    \/ \E kind \in FetchKinds, response \in Responses, now \in {1} :
           FetchResponse(kind, response, now)

RefreshSpec == DashboardStoreInit /\ [][RefreshNext]_vars

\* the server-control buttons and the polls that run beside them
ControlNext ==
    \/ \E action \in ControlActions : HandleServerControl(action)
    \/ \E response \in Responses, now \in {1} : RestResponse(response, now)
    \/ StartAutoRefresh
    \/ \E id \in 1 .. MaxRefreshTimers + 1 : RefreshTick(id)
    \/ FetchDashboardOverview
    \/ \E kind \in FetchKinds, response \in Responses, now \in {1} :
           FetchResponse(kind, response, now)

ControlSpec == DashboardStoreInit /\ [][ControlNext]_vars

\* the fetch actions of the store and the view that loads its data
OverviewNext ==
    \/ LoadDashboardData
    \/ FetchDashboardOverview
    \/ \E kind \in FetchKinds : FetchOther(kind)
    \/ \E kind \in FetchKinds, response \in Responses, now \in {1, 2} :
           FetchResponse(kind, response, now)

OverviewSpec == DashboardStoreInit /\ [][OverviewNext]_vars

(* ------------------------------------------------------------------ *)
(* Properties                                                          *)
(* ------------------------------------------------------------------ *)

\* the transport sockets of instance c that are connecting or open
Live(c) ==
    {s \in SocketIds : sockets[s].owner = c /\ sockets[s].readyState \in {"CONNECTING", "OPEN"}}

C2_DisconnectCancelsReconnectTimer ==
    (last.op = "timer" /\ last.stale) =>
        /\ client[last.c].ws = Null
        /\ client[last.c].connectionStatus =
               [connected |-> FALSE, reconnecting |-> FALSE, error |-> NoError]

\* C3: a client has at most one transport connection that is connecting or open.
C3_AtMostOneLiveConnection ==
    \A c \in Clients : Cardinality(Live(c)) <= 1

\* a connection attempt of instance c is in flight: this.ws is still connecting
InFlight(c) ==
    client[c].ws \in SocketIds /\ sockets[client[c].ws].readyState = "CONNECTING"

\* C4: connect() called while an attempt is in flight creates no second
\* transport connection (and so cannot replace the socket of the first attempt).
C4_ConnectIdempotentInFlight ==
    [][ \A c \in Clients :
            (last'.op = "connect" /\ last'.c = c /\ InFlight(c)) =>
                Cardinality(Live(c)') = Cardinality(Live(c))
      ]_vars

\* C5: between two successful opens at most max_attempts (5) automatic connect
\* attempts (connect() run by a reconnect timer) are made; once they are used up
\* no further one happens.
C5_AtMostMaxAutomaticAttempts ==
    \A c \in Clients : hist[c].autoConnects <= 5

\* C6: when the automatic attempts are used up (consecutive abnormal closures
\* with no successful open in between, the last of which finds no attempt
\* left), the status is terminal: reconnecting is false and error is set.
C6_ExhaustionSetsErrorStatus ==
    (last.op = "close" /\ last.code # 1000 /\ Exhausted(last.c)) =>
        /\ client[last.c].connectionStatus.reconnecting = FALSE
        /\ client[last.c].connectionStatus.error # NoError

\* C7: connected and reconnecting are never both true, neither in a client's
\* own status nor in the store's consoleStatus and statusConnectionStatus.
C7_NeverConnectedAndReconnecting ==
    /\ \A c \in Clients :
           ~(client[c].connectionStatus.connected /\ client[c].connectionStatus.reconnecting)
    /\ ~(store.consoleStatus.connected /\ store.consoleStatus.reconnecting)
    /\ ~(store.statusConnectionStatus.connected /\ store.statusConnectionStatus.reconnecting)

\* a client is connected and the store's consoleStatus mirrors its status
C7_Witness ==
    \E c \in Clients :
        /\ client[c].connectionStatus.connected
        /\ store.consoleStatus = client[c].connectionStatus
        /\ last.op = "open"

\* C8: the timer registered for reconnect attempt k, the k-th consecutive
\* failure since the last successful open, has delay 1000 * 2^(k-1) ms:
\* 1000, 2000, 4000, 8000, 16000 for k = 1..5.
C8_BackoffDelay ==
    /\ (last.op = "close" /\ last.delay # 0) =>
           /\ hist[last.c].closes \in 1 .. 5
           /\ last.delay = <<1000, 2000, 4000, 8000, 16000>>[hist[last.c].closes]
    /\ \A i \in DOMAIN timers : timers[i].delay \in {1000, 2000, 4000, 8000, 16000}

\* the fifth consecutive failure registers a timer of 16000 ms
C8_Witness ==
    /\ last.op = "close" /\ last.delay = 16000
    /\ hist[last.c].closes = 5
    /\ \E i \in DOMAIN timers : timers[i].delay = 16000

\* C9: a close event with a code other than 1000 that finds fewer than 5
\* attempts used increments the attempt counter, computes the delay from the
\* incremented counter, leaves the status {connected: false, reconnecting: true}
\* and registers exactly one reconnect timer; a close event with code 1000
\* registers none.
C9_AbnormalCloseSchedulesOneRetry ==
    [][ \A c \in Clients :
            (last'.op = "close" /\ last'.c = c) =>
                IF last'.code # 1000 /\ client[c].reconnectAttempts < 5
                THEN /\ client'[c].reconnectAttempts = client[c].reconnectAttempts + 1
                     /\ client'[c].connectionStatus =
                            [connected |-> FALSE, reconnecting |-> TRUE, error |-> NoError]
                     /\ Len(timers') = Len(timers) + 1
                     /\ SubSeq(timers', 1, Len(timers)) = timers
                     /\ timers'[Len(timers')].owner = c
                     /\ timers'[Len(timers')].delay = 1000 * 2 ^ client[c].reconnectAttempts
                ELSE last'.code = 1000 => timers' = timers
      ]_vars

\* a server-side close with code 1001 has registered a retry
C9_Witness ==
    /\ last.op = "close" /\ last.code = 1001 /\ last.delay # 0
    /\ client[last.c].connectionStatus.reconnecting
    /\ Len(timers) = 1

\* C10: after the automatic attempts were used up, an explicit connect() resets
\* the attempt counter: when the attempt it starts closes abnormally, a
\* reconnect timer is registered again.
C10_FreshConnectRestoresReconnect ==
    (last.op = "close" /\ last.code # 1000 /\ last.fresh) =>
        /\ last.delay # 0
        /\ client[last.c].connectionStatus.reconnecting

\* C11: connect() (called by the owner or by a reconnect timer) first publishes
\* the status {connected: false, reconnecting: true}, which is the status it
\* leaves when the socket could be created; the open event leaves the status
\* {connected: true, reconnecting: false} and the attempt counter 0, and
\* resolves the promise of the connect() call that created the socket.
C11_ConnectThenOpen ==
    [][ /\ last'.op \in {"connect", "timer"} =>
               /\ trace'.calls # <<>>
               /\ trace'.calls[1].arg =
                      [connected |-> FALSE, reconnecting |-> TRUE, error |-> NoError]
               /\ client[last'.c].url = "valid" =>
                      client'[last'.c].connectionStatus =
                          [connected |-> FALSE, reconnecting |-> TRUE, error |-> NoError]
        /\ last'.op = "open" =>
               /\ client'[last'.c].connectionStatus =
                      [connected |-> TRUE, reconnecting |-> FALSE, error |-> NoError]
               /\ client'[last'.c].reconnectAttempts = 0
               /\ trace'.settled = <<[c |-> last'.c, outcome |-> "resolved"]>>
      ]_vars

\* a connection attempt has just succeeded while the reconnect timer of an
\* earlier failure is still pending
C11_Witness ==
    /\ last.op = "open"
    /\ client[last.c].reconnectAttempts = 0
    /\ client[last.c].connectionStatus.connected
    /\ trace.settled = <<[c |-> last.c, outcome |-> "resolved"]>>
    /\ timers # <<>>

\* C12: a failed connection attempt rejects the promise of connect() and leaves
\* a status with connected false and error set, both when the transport reports
\* an error for a connecting socket and when the socket cannot be created; a
\* reconnect timer's connect() raises nothing to the timer.
C12_FailedAttemptRejects ==
    [][ /\ (last'.op = "error" /\ last'.was = "CONNECTING") =>
               /\ trace'.settled = <<[c |-> last'.c, outcome |-> "rejected"]>>
               /\ client'[last'.c].connectionStatus.connected = FALSE
               /\ client'[last'.c].connectionStatus.error # NoError
        /\ (last'.op \in {"connect", "timer"} /\ client[last'.c].url # "valid") =>
               /\ trace'.settled = <<[c |-> last'.c, outcome |-> "rejected"]>>
               /\ client'[last'.c].connectionStatus.connected = FALSE
               /\ client'[last'.c].connectionStatus.error # NoError
        /\ last'.op = "timer" => trace'.thrown = FALSE
      ]_vars

\* the attempt a reconnect timer started has failed with a transport error
C12_Witness ==
    /\ last.op = "error" /\ last.was = "CONNECTING"
    /\ hist[last.c].autoConnects > 0
    /\ trace.settled = <<[c |-> last.c, outcome |-> "rejected"]>>
    /\ client[last.c].connectionStatus.error = "Connection error"

\* this.ws of instance c is an open socket
SocketOpen(c) ==
    client[c].ws \in SocketIds /\ sockets[client[c].ws].readyState = "OPEN"

\* C13: send() called while the client has no socket or its socket is not open
\* transmits nothing, raises nothing and changes nothing in the client, the
\* sockets, the timers or the store; and a message that send() dropped is not
\* transmitted by any later step (nothing was queued), also after a reconnect.
C13_SendWhileDisconnectedIsDropped ==
    [][ /\ (last'.op = "send" /\ ~SocketOpen(last'.c)) =>
               /\ trace'.sent = <<>>
               /\ trace'.thrown = FALSE
               /\ client' = client
               /\ sockets' = sockets
               /\ timers' = timers
               /\ intervals' = intervals
               /\ store' = store
        /\ \A i \in DOMAIN trace'.sent : \A c \in Clients :
               trace'.sent[i].type = "command" => trace'.sent[i].command \notin hist[c].dropped
      ]_vars

\* a first message was dropped while the socket was connecting, and a second
\* one is transmitted after the connection has opened
C13_Witness ==
    /\ last.op = "send"
    /\ hist[last.c].dropped = {1}
    /\ trace.sent = <<[type |-> "command", command |-> 2]>>

\* the steps that publish a connection status
StatusSteps == {"connect", "disconnect", "open", "error", "close", "timer"}

\* `calls` is a number of rounds over the entries of `reg`, each round in the
\* order of `reg`, once per entry and with one argument for the whole round
Rounds(calls, reg, on) ==
    IF reg = <<>> THEN calls = <<>>
    ELSE /\ Len(calls) % Len(reg) = 0
         /\ \A i \in DOMAIN calls :
                LET k == ((i - 1) % Len(reg)) + 1
                IN  /\ calls[i].h = reg[k]
                    /\ calls[i].on = on
                    /\ calls[i].arg = calls[i - k + 1].arg

\* every inbound message is dispatched once to the message handlers and every
\* status change once to the connection handlers, in registration order and
\* once per entry; no other step invokes a handler
DispatchInOrder ==
    /\ last'.op = "message" =>
           trace'.calls =
               IF trace'.inbound[1].type = "malformed" THEN <<>>
               ELSE [i \in DOMAIN client[last'.c].messageHandlers |->
                        [h |-> client[last'.c].messageHandlers[i], on |-> "message",
                         arg |-> trace'.inbound[1]]]
    /\ last'.op \in StatusSteps =>
           /\ Rounds(trace'.calls, client[last'.c].connectionHandlers, "connection")
           /\ Len(trace'.calls) >= Len(client[last'.c].connectionHandlers)
           /\ trace'.calls # <<>> =>
                  trace'.calls[Len(trace'.calls)].arg = client'[last'.c].connectionStatus
    /\ last'.op \notin StatusSteps \cup {"message"} => trace'.calls = <<>>

\* `after` is `before` without the first entry of h (or `before`, if h has none)
FirstEntryRemoved(before, after, h) ==
    IF \A i \in DOMAIN before : before[i] # h THEN after = before
    ELSE \E i \in DOMAIN before :
             /\ before[i] = h
             /\ \A j \in 1 .. i - 1 : before[j] # h
             /\ after = [j \in 1 .. Len(before) - 1 |->
                             IF j < i THEN before[j] ELSE before[j + 1]]

InvokedAfterThrower(calls, reg) ==
    \A i, j \in DOMAIN reg :
        (i < j /\ Throws(reg[i])) => (Len(calls) >= j /\ calls[j].h = reg[j])

\* C15: a handler that raises does not stop the dispatch and changes nothing
\* else: no exception leaves the dispatch (none reaches the transport
\* callback, connect() or disconnect()), every handler registered after the
\* raising one is invoked for the same message or status change, and with a
\* raising connection handler registered each step leaves the status and the
\* attempt counter it leaves without one (open: connected, counter 0, promise
\* resolved; error: the error status; close: closed, or counter + 1 with a
\* retry scheduled; connect: reconnecting; disconnect: closed, socket dropped).
C15_ThrowingHandlerIsIsolated ==
    [][ LET c == last'.c
            before == client[c]
            after == client'[c]
            status(connected, reconnecting, error) ==
                after.connectionStatus =
                    [connected |-> connected, reconnecting |-> reconnecting, error |-> error]
        IN  /\ trace'.thrown = FALSE
            /\ (last'.op = "message" /\ trace'.inbound[1].type # "malformed") =>
                   InvokedAfterThrower(trace'.calls, before.messageHandlers)
            /\ last'.op \in StatusSteps =>
                   InvokedAfterThrower(trace'.calls, before.connectionHandlers)
            /\ (last'.op \in StatusSteps
                    /\ \E i \in DOMAIN before.connectionHandlers :
                           Throws(before.connectionHandlers[i])) =>
                   CASE last'.op = "open" ->
                            /\ status(TRUE, FALSE, NoError)
                            /\ after.reconnectAttempts = 0
                            /\ trace'.settled = <<[c |-> c, outcome |-> "resolved"]>>
                     [] last'.op = "error" ->
                            /\ status(FALSE, FALSE, "Connection error")
                            /\ after.reconnectAttempts = before.reconnectAttempts
                     [] last'.op = "disconnect" ->
                            /\ status(FALSE, FALSE, NoError)
                            /\ after.ws = Null
                            /\ after.reconnectAttempts = before.reconnectAttempts
                     [] last'.op \in {"connect", "timer"} ->
                            /\ status(FALSE, TRUE, NoError)
                            /\ after.ws \in SocketIds
                            /\ after.reconnectAttempts = before.reconnectAttempts
                     [] last'.op = "close" ->
                            IF last'.code # 1000 /\ before.reconnectAttempts < 5
                            THEN /\ status(FALSE, TRUE, NoError)
                                 /\ after.reconnectAttempts = before.reconnectAttempts + 1
                                 /\ Len(timers') = Len(timers) + 1
                            ELSE /\ status(FALSE, FALSE, NoError)
                                 /\ after.reconnectAttempts = before.reconnectAttempts
                                 /\ timers' = timers
      ]_vars

\* the open event was dispatched to a raising handler and then to the handler
\* registered after it, and the client is connected
C15_Witness ==
    /\ last.op = "open"
    /\ client[last.c].connectionHandlers = <<"thrower", "probe">>
    /\ Len(trace.calls) = 2
    /\ trace.calls[1].h = "thrower"
    /\ trace.calls[2].h = "probe"
    /\ client[last.c].connectionStatus.connected
    /\ trace.thrown = FALSE

\* C16: a ping frame is transmitted only by a firing of the heartbeat timer
\* that finds isConnected() true (the status is connected, hence neither
\* disconnected nor connecting nor waiting to reconnect); no other step of
\* the heartbeat wrapper transmits a frame.
C16_PingOnlyWhileConnected ==
    [][ trace'.sent # <<>> =>
            /\ last'.op = "heartbeat"
            /\ client[last'.c].connectionStatus.connected
            /\ ~client[last'.c].connectionStatus.reconnecting
            /\ trace'.sent = <<[type |-> "ping", command |-> ""]>>
      ]_vars

\* the heartbeat timer has fired on a connected client and a ping went out
C16_Witness ==
    /\ last.op = "heartbeat"
    /\ trace.sent = <<[type |-> "ping", command |-> ""]>>
    /\ client[last.c].connectionStatus.connected

\* C17: from disconnect() until the owner calls connect() again, no heartbeat
\* timer of the client is running and no ping is sent.
C17_NoHeartbeatAfterDisconnect ==
    \A c \in Clients :
        hist[c].manual =>
            /\ \A t \in intervals : t.owner # c
            /\ client[c].pingInterval = Null
            /\ trace.sent = <<>>

\* C18: the console buffer never holds more than 1000 entries, whatever the
\* order of console_log frames, command echoes and clears.
C18_BufferAtMostCap ==
    Len(store.consoleMessages) <= 1000

\* more than 1000 entries have been appended since the last clear and the
\* buffer is full
C18_Witness ==
    /\ Len(store.consoleMessages) = 1000
    /\ \A c \in Clients : hist[c].appended = 1002
    /\ last.op = "echo"

\* C19: when N entries have been appended since the buffer was last empty, the
\* buffer holds the last min(N, 1000) of them, oldest first: for N > 1000
\* exactly the entries N - 999 .. N in the order in which they arrived.
C19_BufferKeepsNewestInOrder ==
    \A c \in Clients :
        LET N == hist[c].appended
            buffer == store.consoleMessages
        IN  /\ Len(buffer) = IF N > 1000 THEN 1000 ELSE N
            /\ \A i \in DOMAIN buffer : buffer[i].data = N - Len(buffer) + i

\* 1002 entries have arrived: the buffer runs from the 3rd to the 1002nd
C19_Witness ==
    /\ \A c \in Clients : hist[c].appended = 1002
    /\ Len(store.consoleMessages) = 1000
    /\ store.consoleMessages[1].data = 3
    /\ store.consoleMessages[1000].data = 1002
    /\ last.op = "console_log"

\* C20: on the console channel a console_log frame appends one entry with the
\* frame's type, timestamp and data to the buffer and changes no connection
\* status; a connection_established, pong or unknown frame, and a frame that
\* does not parse, change neither the store nor the client and raise nothing.
C20_ConsoleFrameEffect ==
    [][ last'.op = "message" =>
            LET frame == trace'.inbound[1]
            IN  /\ trace'.thrown = FALSE
                /\ client' = client
                /\ store'.consoleStatus = store.consoleStatus
                /\ store'.statusConnectionStatus = store.statusConnectionStatus
                /\ store'.consoleMessages =
                       IF frame.type = "console_log"
                       THEN Append(store.consoleMessages,
                                   [type |-> "console_log", timestamp |-> frame.timestamp,
                                    data |-> frame.data])
                       ELSE store.consoleMessages
      ]_vars

\* the client is connected and the frame {type: "console_log", data: "Hello"}
\* has arrived: the buffer holds that one entry and the status is connected
C20_Witness ==
    /\ last.op = "message"
    /\ trace.inbound = <<[type |-> "console_log", timestamp |-> "t2", data |-> "Hello"]>>
    /\ store.consoleMessages =
           <<[type |-> "console_log", timestamp |-> "t2", data |-> "Hello"]>>
    /\ store.consoleStatus.connected
    /\ client[last.c].connectionStatus.connected

\* C21: a frame that does not parse is dropped: the step that receives it
\* invokes no handler, raises nothing and changes neither the client (status,
\* attempt counter) nor the store (console buffer) nor sockets and timers, and
\* the frame that arrives next is dispatched to the store's message handler as
\* if the malformed one had not come.
C21_MalformedFrameDropped ==
    [][ /\ (last'.op = "message" /\ trace'.inbound[1].type = "malformed") =>
               /\ trace'.calls = <<>>
               /\ trace'.thrown = FALSE
               /\ client' = client
               /\ store' = store
               /\ sockets' = sockets
               /\ timers' = timers
        /\ (/\ last.op = "message" /\ trace.inbound[1].type = "malformed"
            /\ last'.op = "message" /\ trace'.inbound[1].type # "malformed") =>
               /\ trace'.calls = <<[h |-> "consoleMessage", on |-> "message",
                                    arg |-> trace'.inbound[1]]>>
               /\ store' = handleConsoleMessage(store, trace'.inbound[1])
      ]_vars

\* a malformed frame has arrived on a connected channel whose buffer holds
\* the entry of an earlier frame
C21_Witness ==
    /\ last.op = "message"
    /\ trace.inbound = <<[type |-> "malformed", timestamp |-> "", data |-> ""]>>
    /\ trace.calls = <<>>
    /\ store.consoleMessages # <<>>
    /\ client[last.c].connectionStatus.connected

\* the console channel does not show as connected: the store holds no
\* console client, or its consoleStatus is not connected
ChannelNotConnected == store.consoleWs = Null \/ ~store.consoleStatus.connected

NewestEntry(buffer) == buffer[Len(buffer)]

\* C23: a step of the console view appends to the console buffer only when
\* it submits a command and sendConsoleCommand returns true, and then it
\* appends exactly one entry: type console_log, level COMMAND, source Client
\* and the message "> " followed by the trimmed command.
C23_EchoOnlyOnSuccess ==
    [][ IF last'.op = "submit" /\ trace'.returned = "true"
        THEN /\ Len(store'.consoleMessages) = Len(store.consoleMessages) + 1
             /\ SubSeq(store'.consoleMessages, 1, Len(store.consoleMessages)) =
                    store.consoleMessages
             /\ NewestEntry(store'.consoleMessages).type = "console_log"
             /\ NewestEntry(store'.consoleMessages).data =
                    [level |-> "COMMAND", source |-> "Client",
                     message |-> <<">", " ">> \o trim(trace'.typed)]
        ELSE store'.consoleMessages = store.consoleMessages
      ]_vars

\* the line " a" was submitted on an open channel: the command "a" went out
\* and its echo "> a" is the newest entry of the buffer
C23_Witness ==
    /\ last.op = "submit"
    /\ trace.typed = <<" ", "a">>
    /\ trace.returned = "true"
    /\ trace.sent = <<[type |-> "command", command |-> <<"a">>]>>
    /\ NewestEntry(store.consoleMessages).data.message = <<">", " ", "a">>
    /\ view.currentCommand = <<>>

\* C26: the command history never holds more than 50 entries and never two
\* equal neighbours; a submitted command (a non-blank line, the channel showing
\* connected) is appended unless it equals the last entry, the oldest entry
\* leaving when there would be 51; entries that are not neighbours may be equal.
C26_HistoryCappedAndDeduplicated ==
    [][ LET before == view.commandHistory
            after == view'.commandHistory
            command == trim(trace'.typed)
        IN  /\ Len(after) <= 50
            /\ \A i \in 1 .. Len(after) - 1 : after[i] # after[i + 1]
            /\ IF last'.op = "submit" /\ command # <<>> /\ store.consoleStatus.connected
                THEN IF before # <<>> /\ before[Len(before)] = command
                     THEN after = before
                     ELSE IF Len(before) = 50
                     THEN after = Append(Tail(before), command)
                     ELSE after = Append(before, command)
                ELSE after = before
      ]_vars

\* the 50th and 51st command were submitted: the oldest one has left, and the
\* newest entry equals the one before its neighbour
C26_Witness ==
    /\ last.op = "submit"
    /\ Len(view.commandHistory) = 50
    /\ view.commandHistory[1] = <<"a", "a">>
    /\ view.commandHistory[50] = <<"a">>
    /\ view.commandHistory[48] = <<"a">>
    /\ \A c \in Clients : hist[c].commands >= 2

\* C24: once the store has dropped a client (disconnectAll, reconnectConsole),
\* no step of that client creates or opens a transport connection (it has
\* no socket that is connecting or open), and no step of it appends to the
\* console buffer.
C24_DroppedClientStaysDead ==
    [][ \A c \in Clients :
            (hist[c].discarded /\ hist'[c].discarded) =>
                /\ Live(c)' = {}
                /\ last'.c = c => store'.consoleMessages = store.consoleMessages
      ]_vars

\* the mirrored status of the console channel agrees with the channel's
\* client: it is the status of the client the store holds, and
\* {connected: false, reconnecting: false} when the store holds none
MirrorAgrees ==
    IF store.consoleWs = Null
    THEN ~store.consoleStatus.connected /\ ~store.consoleStatus.reconnecting
    ELSE store.consoleStatus = client[store.consoleWs].connectionStatus

\* C25: the store's consoleStatus always is the status of the console
\* channel's current client ({connected: false, reconnecting: false} while
\* there is none); an event of a client the store has dropped does not
\* change it.
C25_OneStatusPerChannel ==
    [][ /\ MirrorAgrees'
        /\ \A c \in Clients :
               (hist[c].discarded /\ last'.c = c /\ last'.op \in {"open", "error", "close", "timer"}) =>
                   store'.consoleStatus = store.consoleStatus
      ]_vars

\* the series of the dashboard's charts that are drawn
Series ==
    (IF dashboard.performanceChartInstance
     THEN {dashboard.performance[k] : k \in 1 .. 3} ELSE {})
    \cup (IF dashboard.playersChartInstance THEN {dashboard.players} ELSE {})

\* C27: after every performance_update each chart series holds at most 50
\* points: all N samples pushed so far while N <= 50, and exactly the 50
\* most recent ones, oldest first, when N > 50.
C27_SeriesKeepNewestFifty ==
    \A data \in Series :
        LET N == dashboard.samples
        IN  /\ Len(data) = IF N > 50 THEN 50 ELSE N
            /\ \A i \in DOMAIN data : data[i][1] = N - Len(data) + i

\* the 51st sample has been pushed: the series run from the 2nd to the 51st
C27_Witness ==
    /\ last.op = "performance_update"
    /\ dashboard.performanceChartInstance /\ dashboard.playersChartInstance
    /\ dashboard.samples = 51
    /\ Len(dashboard.performance[1]) = 50
    /\ dashboard.performance[1][1][1] = 2
    /\ dashboard.performance[3][50][1] = 51
    /\ dashboard.players[1][1] = 2

\* C28: when a server-control action has finished, the view shows a success
\* message if its REST call succeeded and an error message if it failed.
C28_ControlFailureIsShown ==
    (last.op \in {"rest ok", "rest failed"} /\ dashboard.call = "none") =>
        trace.notices =
            IF last.was = "control" /\ last.op = "rest failed"
            THEN <<"error">>
            ELSE <<"success">>

\* what the console view displays
Displayed == displayMessages(store.consoleMessages)

\* C29: the console view displays the whole buffer while it has at most 500
\* entries and exactly its last 500 entries, in buffer order, when it has
\* more, up to the 1000 entries the buffer can hold.
C29_DisplayNewestFiveHundred ==
    LET buffer == store.consoleMessages
    IN  IF Len(buffer) <= 500
        THEN Displayed = buffer
        ELSE /\ Len(Displayed) = 500
             /\ \A i \in 1 .. 500 : Displayed[i] = buffer[Len(buffer) - 500 + i]

\* the buffer holds 501 entries: the view shows the 2nd to the 501st
C29_Witness ==
    /\ Len(store.consoleMessages) = 501
    /\ Len(Displayed) = 500
    /\ Displayed[1].data = 2
    /\ Displayed[500] = store.consoleMessages[501]

\* the attempts of instance c are used up and its status is at rest
GaveUp(c) ==
    /\ ~client[c].connectionStatus.connected
    /\ ~client[c].connectionStatus.reconnecting
    /\ client[c].reconnectAttempts >= maxReconnectAttempts

\* C30: without disconnect() and under fair scheduling of timers and
\* transport events, a client that is reconnecting after an abnormal close
\* eventually is connected, or is not reconnecting with its attempts used up.
C30_ReconnectingEnds ==
    \A c \in Clients :
        (client[c].connectionStatus.reconnecting /\ hist[c].closes > 0)
            ~> (client[c].connectionStatus.connected \/ GaveUp(c))

\* the closure that finds the five attempts used up leaves the client at rest
C30_Witness ==
    /\ last.op = "close" /\ last.code = 1006
    /\ GaveUp(last.c)
    /\ hist[last.c].closes > maxReconnectAttempts
    /\ timers = <<>>
    /\ \A s \in SocketIds : sockets[s].readyState = "NONE"

\* C31: the attempt counter of every client stays within 0 .. 5, also when
\* close events of several sockets of the same client interleave.
C31_CounterWithinBounds ==
    \A c \in Clients :
        Constructed(c) =>
            /\ client[c].reconnectAttempts >= 0
            /\ client[c].reconnectAttempts <= 5

\* a socket of a client closes abnormally with the counter at 5 while
\* another socket of the same client is still alive
C31_Witness ==
    /\ last.op = "close" /\ last.code # ManualCloseCode
    /\ client[last.c].reconnectAttempts = 5
    /\ \E s \in SocketIds :
           sockets[s].readyState # "NONE" /\ sockets[s].owner = last.c

\* the heartbeat interval timers of instance c that are running
Heartbeats(c) == {t \in intervals : t.owner = c}

\* C32: an AutoReconnectWebSocket never has more than one heartbeat interval
\* timer running, whatever connects, reconnects, closes and disconnects
\* happen, and a timer is started only by the open of a connection attempt.
C32_AtMostOneHeartbeat ==
    [][ /\ \A c \in Clients : Cardinality(Heartbeats(c)') <= 1
        /\ \A c \in Clients :
               (Heartbeats(c)' # {} /\ Heartbeats(c)' # Heartbeats(c)) =>
                   /\ last'.op = "open" /\ last'.c = c
                   /\ client'[c].connectionStatus.connected
      ]_vars

\* two overlapping attempts of one client have both opened: the second open
\* restarted the heartbeat and one timer runs
C32_Witness ==
    /\ last.op = "open"
    /\ Cardinality({s \in SocketIds : sockets[s].readyState = "OPEN"
                                       /\ sockets[s].owner = last.c}) = 2
    /\ Cardinality(Heartbeats(last.c)) = 1
    /\ client[last.c].pingInterval # Null

\* C33: when sendConsoleCommand returns true, the command frame has been
\* handed to an open socket of the console channel's current client.
C33_TrueOnlyIfSent ==
    (last.op = "sendConsoleCommand" /\ trace.returned = "true") =>
        /\ store.consoleWs # Null
        /\ client[store.consoleWs].ws \in SocketIds
        /\ sockets[client[store.consoleWs].ws].readyState = "OPEN"
        /\ Len(trace.sent) = 1
        /\ trace.sent[1].type = "command"

\* the entries of handler h in a list, and the calls made to it
CountOf(list, h) == Cardinality({i \in DOMAIN list : list[i] = h})

CallsTo(h) == Cardinality({i \in DOMAIN trace.calls : trace.calls[i].h = h})

\* C34: when handlers unsubscribe during the dispatch of a message or of the
\* status change of an open, every handler that was registered when the
\* dispatch started and of which no entry was removed is invoked once per entry.
C34_UnsubscribeDuringDispatch ==
    [][ \A h \in Unsubscribers :
            LET before == IF last'.op = "message" THEN client[last'.c].messageHandlers
                          ELSE client[last'.c].connectionHandlers
                after  == IF last'.op = "message" THEN client'[last'.c].messageHandlers
                          ELSE client'[last'.c].connectionHandlers
            IN  (/\ last'.op \in {"message", "open"}
                 /\ last'.op = "message" => trace'.inbound[1].type # "malformed"
                 /\ CountOf(after, h) = CountOf(before, h))
                    => CallsTo(h)' = CountOf(before, h)
      ]_vars

\* what a channel of the store consists of: the client it holds, the
\* client's fields (handler lists among them), the state of the socket it
\* refers to, and the connection attempts of that client under way
Channel(held) ==
    [held |-> held,
     fields |-> IF held = Null THEN NotConstructed ELSE [client[held] EXCEPT !.ws = Null],
     ws |-> IF held = Null \/ client[held].ws = Null THEN "null"
            ELSE IF client[held].ws \in SocketIds THEN sockets[client[held].ws].readyState
            ELSE "CLOSED",
     sockets |-> Cardinality({s \in SocketIds : sockets[s].readyState # "NONE"
                                                 /\ sockets[s].owner = held}),
     timers |-> Cardinality({i \in DOMAIN timers : timers[i].owner = held})]

\* C35: initConsoleWebSocket, initStatusWebSocket and connectAll change
\* nothing of a channel the store holds a client for: no new client, no
\* additional handler, no additional connection attempt.
C35_InitIsIdempotent ==
    [][ /\ (last'.op \in {"initConsoleWebSocket", "connectAll"} /\ store.consoleWs # Null) =>
               /\ Channel(store.consoleWs)' = Channel(store.consoleWs)
               /\ store'.consoleStatus = store.consoleStatus
        /\ (last'.op \in {"initStatusWebSocket", "connectAll"} /\ store.statusWs # Null) =>
               /\ Channel(store.statusWs)' = Channel(store.statusWs)
               /\ store'.statusConnectionStatus = store.statusConnectionStatus
        /\ (last'.op \in {"initConsoleWebSocket", "initStatusWebSocket", "connectAll"}
             /\ store.consoleWs # Null /\ store.statusWs # Null) =>
               /\ client' = client /\ sockets' = sockets /\ timers' = timers
               /\ intervals' = intervals /\ store' = store
      ]_vars

\* connectAll() was called again while both channels were connected
C35_Witness ==
    /\ last.op = "connectAll"
    /\ store.consoleWs # Null /\ store.statusWs # Null
    /\ store.consoleStatus.connected /\ store.statusConnectionStatus.connected
    /\ Pending = 2

\* C36: the dashboard store never has more than one auto-refresh interval
\* timer running, and none runs after stopAutoRefresh(), cleanup() or
\* setAutoRefresh(false).
C36_AtMostOneRefreshTimer ==
    [][ /\ Cardinality(dashboard'.refreshTimers) <= 1
        /\ last'.op \in {"stopAutoRefresh", "cleanup", "setAutoRefresh(false)"} =>
               dashboard'.refreshTimers = {}
      ]_vars

\* setRefreshInterval(1000) has replaced the timer that was running: the
\* one timer left runs every second
C36_Witness ==
    /\ last.op = "setRefreshInterval"
    /\ dashboard.timersCreated >= 2
    /\ dashboard.refreshTimers = {[id |-> dashboard.refreshTimer, every |-> 1000]}

\* C37: loading is true while a fetchDashboardOverview, startServer,
\* stopServer or restartServer call is in flight.
C37_LoadingWhileInFlight ==
    (dashboard.call # "none" \/ dashboard.inflight.overview + dashboard.inflight.load > 0)
        => dashboard.loading

\* C38: when loadDashboardData's overview call has succeeded, the view's
\* serverStatus and onlinePlayers are those of the fetched overview and no
\* error message is shown; when it has failed, the error message is shown.
C38_LoadShowsOverview ==
    LET loaded == last.was = "load" /\ last.op \in {"fetch ok", "fetch failed"}
    IN  loaded =>
            IF last.op = "fetch ok"
            THEN /\ dashboard.viewServerStatus = last.code
                 /\ dashboard.onlinePlayers = last.code
                 /\ trace.notices = <<>>
            ELSE trace.notices = <<"error">>

\* the fields of the store that hold fetched data
Fetched(d) ==
    <<d.serverStatus, d.storePlayers, d.dashboardOverview, d.metrics, d.lastUpdated>>

\* C39: a failed REST call raises nothing out of apiCall or the store's fetch
\* actions: the store's error is set to the error apiCall returned, the
\* fetched data and lastUpdated stay as they were, and loading is false once
\* fetchDashboardOverview has returned.
C39_FailedFetchSetsError ==
    [][ last'.op = "fetch failed" =>
            /\ ~trace'.thrown
            /\ dashboard'.error \in {"Network Error", "Internal Server Error"}
            /\ dashboard'.error = IF last'.code = Null THEN "Network Error"
                                  ELSE "Internal Server Error"
            /\ Fetched(dashboard') = Fetched(dashboard)
            /\ last'.was \in {"overview", "load"} => ~dashboard'.loading
      ]_vars

\* an overview poll fails after an earlier one has filled the store
C39_Witness ==
    /\ last.op = "fetch failed" /\ last.was = "overview"
    /\ dashboard.error = "Network Error"
    /\ dashboard.dashboardOverview = 2 /\ dashboard.lastUpdated = 2
    /\ ~dashboard.loading

\* the k-th most recent entry of the command history
MostRecent(history, k) == history[Len(history) - k + 1]

\* C40: historyIndex stays within -1 .. length - 1; ArrowUp moves one entry
\* back and shows it (after k presses from -1 the k-th most recent command),
\* ArrowUp at the oldest entry changes nothing, ArrowDown from index 0 clears
\* the input and returns to -1, and a command that is submitted resets the
\* index to -1.
C40_HistoryIndexInRange ==
    [][ /\ view'.historyIndex >= -1
        /\ view'.historyIndex < Len(view'.commandHistory)
        /\ last'.op = "ArrowUp" =>
               IF view.historyIndex + 1 < Len(view.commandHistory)
               THEN /\ view'.historyIndex = view.historyIndex + 1
                    /\ view'.currentCommand =
                           MostRecent(view.commandHistory, view'.historyIndex + 1)
               ELSE view' = view
        /\ (last'.op = "ArrowDown" /\ view.historyIndex = 0) =>
               /\ view'.historyIndex = -1
               /\ view'.currentCommand = <<>>
        /\ (last'.op = "submit" /\ trim(trace'.typed) # <<>> /\ store.consoleStatus.connected) =>
               view'.historyIndex = -1
      ]_vars

\* the third ArrowUp in a row shows the third most recent of the commands,
\* which differs from the most recent one
C40_Witness ==
    /\ last.op = "ArrowUp"
    /\ view.historyIndex = 2
    /\ Len(view.commandHistory) = maxHistorySize
    /\ view.currentCommand = view.commandHistory[maxHistorySize - 2]
    /\ view.currentCommand # view.commandHistory[maxHistorySize - 1]

====
